---- MODULE Spec2Model ----
(***************************************************************************)
(* rdns-server: the flat key/value backends (filesystem, k8s), the typed   *)
(* record store built on them (kvstore.go) and the CoreDNS resolver of the *)
(* etcd backend (ETCD.Records).                                            *)
(*                                                                         *)
(* Go strings and byte slices are sequences of one-character strings, so   *)
(* that lengths, prefixes and overwrites at an offset are what they are in *)
(* the program.                                                            *)
(***************************************************************************)
EXTENDS Integers, Sequences, FiniteSets, TLC

VARIABLES
    driver,         \* which flat backend the process runs: "filesystem" or "k8s"
    files,          \* filesystem: <<valueType, name>> -> bytes of the file
    cms,            \* k8s: config map name -> [name, vtype, data]
    now,            \* the wall clock, time.Now().UnixNano()
    kvLast,         \* the flat-backend call that just returned, with its results
    etcd,           \* the etcd keyspace: key -> [value, lease]
    WildcardBound,  \* ETCD.WildcardBound
    dnsLast,        \* the resolver call that just returned, with its results
    procs           \* the calls in progress on one key of the flat backend, and
                    \* the holder of its mutex

kvVars  == <<driver, files, cms, now, kvLast>>
dnsVars == <<etcd, WildcardBound, dnsLast>>
vars    == <<driver, files, cms, now, kvLast, etcd, WildcardBound, dnsLast, procs>>

-----------------------------------------------------------------------------
(* Bounds *)

MaxTime == 2        \* the clock runs from 1 to MaxTime
MaxKeys == 2        \* at most MaxKeys keys in the etcd keyspace

-----------------------------------------------------------------------------
(* Strings *)

Q == "\""

HasPrefix(s, p) == Len(p) <= Len(s) /\ SubSeq(s, 1, Len(p)) = p

HasSuffix(s, p) == Len(p) <= Len(s) /\ SubSeq(s, Len(s) - Len(p) + 1, Len(s)) = p

TrimSuffix(s, p) == IF HasSuffix(s, p) THEN SubSeq(s, 1, Len(s) - Len(p)) ELSE s

\* strings.Split(s, sep) for a one-character sep
RECURSIVE Split(_, _)
Split(s, sep) ==
    IF \A i \in 1..Len(s) : s[i] # sep
    THEN <<s>>
    ELSE LET i == CHOOSE k \in 1..Len(s) :
                      s[k] = sep /\ \A m \in 1..(k - 1) : s[m] # sep
         IN  <<SubSeq(s, 1, i - 1)>> \o Split(SubSeq(s, i + 1, Len(s)), sep)

\* strings.Join(parts, sep)
RECURSIVE Join(_, _)
Join(parts, sep) ==
    IF Len(parts) = 0 THEN <<>>
    ELSE IF Len(parts) = 1 THEN parts[1]
    ELSE parts[1] \o <<sep>> \o Join(Tail(parts), sep)

Reverse(s) == [i \in 1..Len(s) |-> s[Len(s) + 1 - i]]

SeqToSet(s) == {s[i] : i \in 1..Len(s)}

Digit == <<"0", "1", "2", "3", "4", "5", "6", "7", "8", "9">>

IsDigit(c) == \E i \in 1..10 : Digit[i] = c

\* strconv for a non-negative int64, as encoding/json writes a number
RECURSIVE Itoa(_)
Itoa(n) == IF n < 10 THEN <<Digit[n + 1]>>
           ELSE Itoa(n \div 10) \o <<Digit[(n % 10) + 1]>>

-----------------------------------------------------------------------------
(* kvstore.go: value types and the stored structs *)

TokenValueType        == "token"
FrozenPrefixValueType == "frozen-prefix"
SubARecordValueType   == "sub-a-record"
TXTRecordValueType    == "txt-record"
ValueTypes            == {FrozenPrefixValueType, TokenValueType}

\* logical names (fqdn, prefix) and token values the callers pass
NameList  == << <<"a">>, <<"b">> >>
Names     == SeqToSet(NameList)
TokenVals == { <<"x">>, <<"y", "y">> }

\* keyvalue.Token and keyvalue.FrozenPrefix
Token(token, fqdn, createdOn) ==
    [type |-> "Token", token |-> token, fqdn |-> fqdn, createdOn |-> createdOn]

FrozenPrefix(token, createdOn) ==
    [type |-> "FrozenPrefix", token |-> token, fqdn |-> <<>>, createdOn |-> createdOn]

ZeroToken == Token(<<>>, <<>>, 0)

\* a typed nil pointer, (*FrozenPrefix)(nil), wrapped in interface{}
NilPtr == [type |-> "nil", token |-> <<>>, fqdn |-> <<>>, createdOn |-> 0]

K_token     == <<"t", "o", "k", "e", "n">>
K_fqdn      == <<"f", "q", "d", "n">>
K_createdOn == <<"c", "r", "e", "a", "t", "e", "d", "O", "n">>

\* model.SubRecordA {fqdn, hosts[], tid, text?} and model.RecordTXT
\* {fqdn, text, tid}; tid is the ID of the owning token, its createdOn
SubRecordA(fqdn, hosts, tid) ==
    [type |-> "SubRecordA", fqdn |-> fqdn, hosts |-> hosts, text |-> <<>>, tid |-> tid]

RecordTXT(fqdn, text, tid) ==
    [type |-> "RecordTXT", fqdn |-> fqdn, hosts |-> <<>>, text |-> text, tid |-> tid]

K_hosts == <<"h", "o", "s", "t", "s">>
K_text  == <<"t", "e", "x", "t">>
K_tid   == <<"t", "i", "d">>

Host1 == <<"1", ".", "1", ".", "1", ".", "1">>
Text1 == <<"v">>

\* the owners of records: the IDs of tokens
Tids == 1..MaxTime

JStr(s)        == <<Q>> \o s \o <<Q>>
JField(k, val) == JStr(k) \o <<":">> \o val

\* json.Marshal of a struct whose fields all carry omitempty: a document
\* [token, fqdn, hosts, text, tid, createdOn] is written field by field,
\* empty ones left out
MarshalDoc(d) ==
    LET fs == (IF d.token # <<>> THEN <<JField(K_token, JStr(d.token))>> ELSE <<>>)
              \o (IF d.fqdn # <<>> THEN <<JField(K_fqdn, JStr(d.fqdn))>> ELSE <<>>)
              \o (IF d.hosts # <<>>
                  THEN <<JField(K_hosts, <<"[">> \o Join([i \in 1..Len(d.hosts) |->
                                                           JStr(d.hosts[i])], ",")
                                         \o <<"]">>)>>
                  ELSE <<>>)
              \o (IF d.text # <<>> THEN <<JField(K_text, JStr(d.text))>> ELSE <<>>)
              \o (IF d.tid # 0 THEN <<JField(K_tid, Itoa(d.tid))>> ELSE <<>>)
              \o (IF d.createdOn # 0
                  THEN <<JField(K_createdOn, Itoa(d.createdOn))>> ELSE <<>>)
    IN  <<"{">> \o Join(fs, ",") \o <<"}">>

\* the JSON document of a stored struct: the fields the struct has
DocOf(v) ==
    IF v.type \in {"SubRecordA", "RecordTXT"}
    THEN [token |-> <<>>, fqdn |-> v.fqdn, hosts |-> v.hosts, text |-> v.text,
          tid |-> v.tid, createdOn |-> 0]
    ELSE [token |-> v.token, fqdn |-> v.fqdn, hosts |-> <<>>, text |-> <<>>,
          tid |-> 0, createdOn |-> v.createdOn]

\* json.Marshal(metadata) for the structs of kvstore.go and the records (a
\* pointer marshals as what it points to)
Marshal(v) == MarshalDoc(DocOf(v))

\* the JSON documents the stored structs can marshal to
Docs ==
    [token : TokenVals \cup {<<>>}, fqdn : Names \cup {<<>>}, hosts : {<<>>},
     text : {<<>>}, tid : {0}, createdOn : 0..MaxTime]
    \cup {DocOf(SubRecordA(n, <<Host1>>, t)) : n \in Names, t \in Tids}
    \cup {DocOf(RecordTXT(n, Text1, t)) : n \in Names, t \in Tids}

\* each document with its bytes
MarshalTable == {<<MarshalDoc(d), d>> : d \in Docs}

\* json.Unmarshal(data, &metadata): one JSON value and nothing after it, or
\* an error. The bytes a backend holds are a Marshal output, possibly
\* followed by the tail of a longer earlier one; they are valid exactly when
\* they are a Marshal output.
UnmarshalIn(table, data) ==
    IF \E e \in table : e[1] = data
    THEN [err |-> "nil", doc |-> (CHOOSE e \in table : e[1] = data)[2]]
    ELSE [err |-> "json",  doc |-> DocOf(NilPtr)]

Unmarshal(data) == UnmarshalIn(MarshalTable, data)

\* what the caller's metadata holds after GetValue decoded doc: a non-nil
\* pointer is filled in; a nil pointer inside the interface cannot be, the
\* decoder replaces GetValue's own copy of the interface and the caller's
\* variable stays nil
Populate(target, doc) ==
    IF target.type = "nil" THEN target
    ELSE IF target.type \in {"SubRecordA", "RecordTXT"}
    THEN [type |-> target.type, fqdn |-> doc.fqdn, hosts |-> doc.hosts,
          text |-> doc.text, tid |-> doc.tid]
    ELSE [type |-> target.type, token |-> doc.token, fqdn |-> doc.fqdn,
          createdOn |-> doc.createdOn]

\* the end of GetValue on the bytes read: err = json.Unmarshal(data,
\* &metadata), and the bytes are returned when it is nil
ReadResult(data, u, metadata) ==
    IF u.err # "nil"
    THEN [ret |-> <<>>, err |-> u.err, metadata |-> metadata]
    ELSE [ret |-> data, err |-> "nil", metadata |-> Populate(metadata, u.doc)]

-----------------------------------------------------------------------------
(* filesystem/file.go *)

FsFilename(name, valueType) == <<valueType, name>>

\* Filesystem.writeValue: O_EXCL|O_RDWR|O_CREATE, or O_RDWR|O_CREATE for an
\* update (no O_TRUNC), then f.Write(j) at offset 0
FsWriteValue(fl, name, valueType, metadata, update) ==
    LET filename == FsFilename(name, valueType)
        exists   == filename \in DOMAIN fl
    IN  IF ~update /\ exists
        THEN [files |-> fl, err |-> "EEXIST"]
        ELSE LET j    == Marshal(metadata)
                 old  == IF exists THEN fl[filename] ELSE <<>>
                 data == j \o SubSeq(old, Len(j) + 1, Len(old))
             IN  [files |-> (filename :> data) @@ fl, err |-> "nil"]

FsSetValue(fl, name, valueType, metadata) ==
    FsWriteValue(fl, name, valueType, metadata, FALSE)

FsUpdateValue(fl, name, valueType, metadata) ==
    FsWriteValue(fl, name, valueType, metadata, TRUE)

\* Filesystem.GetValue
FsGetValue(fl, name, valueType, metadata) ==
    LET filename == FsFilename(name, valueType)
    IN  IF filename \notin DOMAIN fl
        THEN [ret |-> <<>>, err |-> "nil", metadata |-> metadata]
        ELSE ReadResult(fl[filename], Unmarshal(fl[filename]), metadata)

\* DeleteValue failing on a file that does not exist
FsDeleteValueStrict(fl, name, valueType) ==
    LET filename == FsFilename(name, valueType)
    IN  IF filename \in DOMAIN fl
        THEN [files |-> [f \in DOMAIN fl \ {filename} |-> fl[f]], err |-> "nil"]
        ELSE [files |-> fl, err |-> "ENOENT"]

\* Filesystem.DeleteValue
FsDeleteValue(fl, name, valueType) ==
    LET filename == FsFilename(name, valueType)
    IN  IF filename \in DOMAIN fl
        THEN [files |-> [f \in DOMAIN fl \ {filename} |-> fl[f]], err |-> "nil"]
        ELSE [files |-> fl, err |-> "nil"]

\* ioutil.ReadDir(path.Join(fs.path, valueType)): the file names, sorted
FsReadDir(fl, valueType) ==
    SelectSeq(NameList, LAMBDA n : FsFilename(n, valueType) \in DOMAIN fl)

\* Filesystem.ListValues
FsListValues(fl, valueType) == [ret |-> FsReadDir(fl, valueType), err |-> "nil"]

\* var record struct{ CreatedOn int64 }, passed as &record
CreatedOnRecord == [type |-> "record", token |-> <<>>, fqdn |-> <<>>, createdOn |-> 0]

\* the loop of GetExpiredValues taking createdOn <= t for expired
RECURSIVE FsExpiredLoopAtOrBefore(_, _, _, _, _)
FsExpiredLoopAtOrBefore(fl, fnames, valueType, t, expired) ==
    IF fnames = <<>> THEN [ret |-> expired, err |-> "nil"]
    ELSE LET g == FsGetValue(fl, Head(fnames), valueType, CreatedOnRecord)
         IN  IF g.err # "nil" THEN [ret |-> expired, err |-> g.err]
             ELSE FsExpiredLoopAtOrBefore(fl, Tail(fnames), valueType, t,
                                          IF g.metadata.createdOn <= t
                                          THEN Append(expired, Head(fnames))
                                          ELSE expired)

\* Filesystem.GetExpiredValues: the loop over the directory's files
RECURSIVE FsExpiredLoop(_, _, _, _, _)
FsExpiredLoop(fl, fnames, valueType, t, expired) ==
    IF fnames = <<>> THEN [ret |-> expired, err |-> "nil"]
    ELSE LET g == FsGetValue(fl, Head(fnames), valueType, CreatedOnRecord)
         IN  IF g.err # "nil" THEN [ret |-> expired, err |-> g.err]
             ELSE FsExpiredLoop(fl, Tail(fnames), valueType, t,
                                IF g.metadata.createdOn < t
                                THEN Append(expired, Head(fnames)) ELSE expired)

FsGetExpiredValues(fl, valueType, t) ==
    FsExpiredLoop(fl, FsReadDir(fl, valueType), valueType, t, <<>>)

-----------------------------------------------------------------------------
(* k8s/k8s.go *)

\* fmt.Sprintf("%x", md5.Sum([]byte(name))): a digest, taken to be free of
\* collisions on the names in use
Md5Hex(name) == <<"md5">> \o name

\* generateName leaving the value type out of the object name
generateNameUntyped(name, valueType) == <<Md5Hex(name), "">>

\* K8sStore.generateName
generateName(name, valueType) == <<Md5Hex(name), valueType>>

\* the config map writeValue builds: annotation rdns-name, label
\* rdns-value-type, Data["data"]
ConfigMap(name, valueType, data) == [name |-> name, vtype |-> valueType, data |-> data]

\* client.Create / client.Update of a config map
K8sCreate(cm, rname, obj) ==
    IF rname \in DOMAIN cm THEN [cms |-> cm, err |-> "AlreadyExists"]
    ELSE [cms |-> (rname :> obj) @@ cm, err |-> "nil"]

K8sUpdate(cm, rname, obj) ==
    IF rname \notin DOMAIN cm THEN [cms |-> cm, err |-> "NotFound"]
    ELSE [cms |-> (rname :> obj) @@ cm, err |-> "nil"]

\* K8sStore.writeValue: Get, then Create when not found and Update otherwise;
\* the update parameter is not read
K8sWriteValue(cm, name, valueType, metadata, update) ==
    LET rname  == generateName(name, valueType)
        create == rname \notin DOMAIN cm
        obj    == ConfigMap(name, valueType, Marshal(metadata))
    IN  IF create THEN K8sCreate(cm, rname, obj) ELSE K8sUpdate(cm, rname, obj)

K8sSetValue(cm, name, valueType, metadata) ==
    K8sWriteValue(cm, name, valueType, metadata, FALSE)

K8sUpdateValue(cm, name, valueType, metadata) ==
    K8sWriteValue(cm, name, valueType, metadata, TRUE)

\* K8sStore.DeleteValue
K8sDeleteValue(cm, name, valueType) ==
    LET rname == generateName(name, valueType)
    IN  IF rname \notin DOMAIN cm THEN [cms |-> cm, err |-> "nil"]
        ELSE [cms |-> [r \in DOMAIN cm \ {rname} |-> cm[r]], err |-> "nil"]

\* K8sStore.ListValues: the config maps labelled rdns-value-type=valueType,
\* each giving its rdns-name annotation
K8sListValues(cm, valueType) ==
    [ret |-> SelectSeq(NameList,
                       LAMBDA n : \E r \in DOMAIN cm :
                                     cm[r].vtype = valueType /\ cm[r].name = n
                                     /\ r = generateName(n, valueType)),
     err |-> "nil"]

\* K8sStore.GetValue
K8sGetValue(cm, name, valueType, metadata) ==
    LET rname == generateName(name, valueType)
    IN  IF rname \notin DOMAIN cm
        THEN [ret |-> <<>>, err |-> "nil", metadata |-> metadata]
        ELSE ReadResult(cm[rname].data, Unmarshal(cm[rname].data), metadata)

\* K8sStore.GetExpiredValues: the loop over the listed names
RECURSIVE K8sExpiredLoop(_, _, _, _, _)
K8sExpiredLoop(cm, names, valueType, t, expired) ==
    IF names = <<>> THEN [ret |-> expired, err |-> "nil"]
    ELSE LET g == K8sGetValue(cm, Head(names), valueType, CreatedOnRecord)
         IN  IF g.err # "nil" THEN [ret |-> expired, err |-> g.err]
             ELSE K8sExpiredLoop(cm, Tail(names), valueType, t,
                                 IF g.metadata.createdOn < t
                                 THEN Append(expired, Head(names)) ELSE expired)

K8sGetExpiredValues(cm, valueType, t) ==
    K8sExpiredLoop(cm, K8sListValues(cm, valueType).ret, valueType, t, <<>>)

-----------------------------------------------------------------------------
(* kvstore.go: the KeyValueStore interface, dispatched on the driver.      *)
(* A store st is [files, cms]; only the running driver's part changes.     *)

SetValue(st, name, valueType, metadata) ==
    IF driver = "filesystem"
    THEN LET r == FsSetValue(st.files, name, valueType, metadata)
         IN  [st |-> [st EXCEPT !.files = r.files], err |-> r.err]
    ELSE LET r == K8sSetValue(st.cms, name, valueType, metadata)
         IN  [st |-> [st EXCEPT !.cms = r.cms], err |-> r.err]

UpdateValue(st, name, valueType, metadata) ==
    IF driver = "filesystem"
    THEN LET r == FsUpdateValue(st.files, name, valueType, metadata)
         IN  [st |-> [st EXCEPT !.files = r.files], err |-> r.err]
    ELSE LET r == K8sUpdateValue(st.cms, name, valueType, metadata)
         IN  [st |-> [st EXCEPT !.cms = r.cms], err |-> r.err]

DeleteValue(st, name, valueType) ==
    IF driver = "filesystem"
    THEN LET r == FsDeleteValue(st.files, name, valueType)
         IN  [st |-> [st EXCEPT !.files = r.files], err |-> r.err]
    ELSE LET r == K8sDeleteValue(st.cms, name, valueType)
         IN  [st |-> [st EXCEPT !.cms = r.cms], err |-> r.err]

GetValue(st, name, valueType, metadata) ==
    IF driver = "filesystem" THEN FsGetValue(st.files, name, valueType, metadata)
    ELSE K8sGetValue(st.cms, name, valueType, metadata)

ListValues(st, valueType) ==
    IF driver = "filesystem" THEN FsListValues(st.files, valueType)
    ELSE K8sListValues(st.cms, valueType)

GetExpiredValues(st, valueType, t) ==
    IF driver = "filesystem" THEN FsGetExpiredValues(st.files, valueType, t)
    ELSE K8sGetExpiredValues(st.cms, valueType, t)

-----------------------------------------------------------------------------
(* kvstore.go: KeyValueBackend *)

\* KeyValueBackend.InsertFrozen
InsertFrozen(st, prefix) ==
    SetValue(st, prefix, FrozenPrefixValueType, FrozenPrefix(<<>>, now))

\* KeyValueBackend.QueryFrozen
QueryFrozen(st, prefix) ==
    LET g == GetValue(st, prefix, FrozenPrefixValueType, NilPtr)
    IN  IF g.err # "nil" THEN [ret |-> <<>>, err |-> g.err]
        ELSE IF g.metadata.type = "nil" THEN [ret |-> <<>>, err |-> "nil"]
        ELSE [ret |-> prefix, err |-> "nil"]

\* KeyValueBackend.RenewFrozen
RenewFrozen(st, prefix) ==
    LET g == GetValue(st, prefix, FrozenPrefixValueType, NilPtr)
    IN  IF g.err # "nil" THEN [st |-> st, err |-> g.err]
        ELSE IF g.metadata.type = "nil" THEN [st |-> st, err |-> "nil"]
        ELSE SetValue(st, prefix, FrozenPrefixValueType,
                      [g.metadata EXCEPT !.createdOn = now])

\* KeyValueBackend.DeleteFrozen
DeleteFrozen(st, prefix) == DeleteValue(st, prefix, FrozenPrefixValueType)

\* the loop of DeleteExpiredFrozen over the expired names
RECURSIVE DeleteLoop(_, _, _)
DeleteLoop(st, names, valueType) ==
    IF names = <<>> THEN [st |-> st, err |-> "nil"]
    ELSE LET d == DeleteValue(st, Head(names), valueType)
         IN  IF d.err # "nil" THEN d
             ELSE DeleteLoop(d.st, Tail(names), valueType)

\* KeyValueBackend.DeleteExpiredFrozen
DeleteExpiredFrozen(st, t) ==
    LET e == GetExpiredValues(st, FrozenPrefixValueType, t)
    IN  IF e.err # "nil" THEN [st |-> st, err |-> e.err]
        ELSE DeleteLoop(st, e.ret, FrozenPrefixValueType)

\* KeyValueBackend.MigrateFrozen
MigrateFrozen(st, prefix, expiration) ==
    SetValue(st, prefix, FrozenPrefixValueType, FrozenPrefix(<<>>, expiration))

\* KeyValueBackend.InsertToken
InsertToken(st, token, name) ==
    LET t == Token(token, name, now)
        s == SetValue(st, name, TokenValueType, t)
    IN  [st |-> s.st, ret |-> t.createdOn, err |-> s.err]

\* KeyValueBackend.QueryToken; model.Token{ID, Token, Fqdn, CreatedOn}
QueryToken(st, name) ==
    LET g == GetValue(st, name, TokenValueType, ZeroToken)
    IN  IF g.err # "nil" THEN [ok |-> FALSE, err |-> g.err, token |-> ZeroToken]
        ELSE [ok |-> TRUE, err |-> "nil", token |-> g.metadata]

\* the loop of QueryExpiredTokens over the expired names
RECURSIVE QueryLoop(_, _, _)
QueryLoop(st, names, result) ==
    IF names = <<>> THEN [ret |-> result, err |-> "nil"]
    ELSE LET q == QueryToken(st, Head(names))
         IN  IF q.err # "nil" THEN [ret |-> <<>>, err |-> q.err]
             ELSE QueryLoop(st, Tail(names), Append(result, q.token))

\* KeyValueBackend.QueryExpiredTokens
QueryExpiredTokens(st, t) ==
    LET e == GetExpiredValues(st, TokenValueType, t)
    IN  IF e.err # "nil" THEN [ret |-> <<>>, err |-> e.err]
        ELSE QueryLoop(st, e.ret, <<>>)

\* RenewToken writing the record back with the createdOn it read
RenewTokenKeep(st, name) ==
    LET q == QueryToken(st, name)
    IN  IF q.err # "nil" THEN [st |-> st, ret |-> 0, err |-> q.err]
        ELSE LET t == Token(q.token.token, q.token.fqdn, q.token.createdOn)
                 u == UpdateValue(st, name, TokenValueType, t)
             IN  IF u.err # "nil" THEN [st |-> st, ret |-> 0, err |-> u.err]
                 ELSE [st |-> u.st, ret |-> t.createdOn, err |-> "nil"]

\* KeyValueBackend.RenewToken
RenewToken(st, name) ==
    LET q == QueryToken(st, name)
    IN  IF q.err # "nil" THEN [st |-> st, ret |-> 0, err |-> q.err]
        ELSE LET t == Token(q.token.token, q.token.fqdn, now)
                 u == UpdateValue(st, name, TokenValueType, t)
             IN  IF u.err # "nil" THEN [st |-> st, ret |-> 0, err |-> u.err]
                 ELSE [st |-> u.st, ret |-> t.createdOn, err |-> "nil"]

\* the loop of DeleteToken over the listed names: the record read under
\* name is deleted under the fqdn it holds
RECURSIVE DeleteTokenLoop(_, _, _)
DeleteTokenLoop(st, names, token) ==
    IF names = <<>> THEN [st |-> st, err |-> "nil"]
    ELSE LET q == QueryToken(st, Head(names))
         IN  IF q.err # "nil" THEN [st |-> st, err |-> q.err]
             ELSE IF q.token.token = token
             THEN LET r == DeleteValue(st, q.token.fqdn, TokenValueType)
                  IN  IF r.err # "nil" THEN [st |-> r.st, err |-> r.err]
                      ELSE DeleteTokenLoop(r.st, Tail(names), token)
             ELSE DeleteTokenLoop(st, Tail(names), token)

\* KeyValueBackend.DeleteToken
DeleteToken(st, token) ==
    LET l == ListValues(st, TokenValueType)
    IN  IF l.err # "nil" THEN [st |-> st, err |-> l.err]
        ELSE DeleteTokenLoop(st, l.ret, token)

\* Release of the tokens a sweep found expired: each is revoked by its
\* token value, DeleteToken(t.Token)
RECURSIVE ReleaseLoop(_, _, _), ReleaseNext(_, _, _)
ReleaseLoop(st, tokens, found) ==
    IF tokens = <<>> THEN [st |-> st, err |-> "nil", ret |-> found]
    ELSE ReleaseNext(DeleteToken(st, Head(tokens).token), Tail(tokens), found)

ReleaseNext(d, tokens, found) ==
    IF d.err # "nil" THEN [st |-> d.st, err |-> d.err, ret |-> found]
    ELSE ReleaseLoop(d.st, tokens, found)

\* the token half of Sweep: QueryExpiredTokens(cutoff), then the release of
\* every token returned
SweepFound(st, q) ==
    IF q.err # "nil" THEN [st |-> st, err |-> q.err, ret |-> <<>>]
    ELSE ReleaseLoop(st, q.ret, q.ret)

SweepTokens(st, t) == SweepFound(st, QueryExpiredTokens(st, t))

\* KeyValueBackend.MigrateToken
MigrateToken(st, token, name, expiration) ==
    SetValue(st, name, TokenValueType, Token(token, name, expiration))

\* KeyValueBackend.InsertSubA and InsertTXT
InsertSubA(st, a) == SetValue(st, a.fqdn, SubARecordValueType, a)

InsertTXT(st, a) == SetValue(st, a.fqdn, TXTRecordValueType, a)

\* KeyValueBackend.QuerySubA and QueryTXT: var record, passed as &record
QuerySubA(st, name) ==
    LET g == GetValue(st, name, SubARecordValueType, SubRecordA(<<>>, <<>>, 0))
    IN  [err |-> g.err, record |-> g.metadata]

QueryTXT(st, name) ==
    LET g == GetValue(st, name, TXTRecordValueType, RecordTXT(<<>>, <<>>, 0))
    IN  [err |-> g.err, record |-> g.metadata]

\* KeyValueBackend.ListSubA: every listed record is appended, id is not read
ListSubA(st, id) ==
    LET l == ListValues(st, SubARecordValueType)
        loop[i \in 0..Len(l.ret)] ==
            IF i = 0 THEN [ret |-> <<>>, err |-> "nil"]
            ELSE LET r == QuerySubA(st, l.ret[i])
                 IN  IF loop[i - 1].err # "nil" THEN loop[i - 1]
                     ELSE IF r.err # "nil" THEN [ret |-> <<>>, err |-> r.err]
                     ELSE [ret |-> Append(loop[i - 1].ret, r.record), err |-> "nil"]
    IN  IF l.err # "nil" THEN [ret |-> <<>>, err |-> l.err]
        ELSE loop[Len(l.ret)]

\* KeyValueBackend.QueryExpiredTXTs: a listed record is appended when
\* r.TID == id
QueryExpiredTXTs(st, id) ==
    LET l == ListValues(st, TXTRecordValueType)
        loop[i \in 0..Len(l.ret)] ==
            IF i = 0 THEN [ret |-> <<>>, err |-> "nil"]
            ELSE LET r == QueryTXT(st, l.ret[i])
                 IN  IF loop[i - 1].err # "nil" THEN loop[i - 1]
                     ELSE IF r.err # "nil" THEN [ret |-> <<>>, err |-> r.err]
                     ELSE IF r.record.tid = id
                     THEN [ret |-> Append(loop[i - 1].ret, r.record), err |-> "nil"]
                     ELSE loop[i - 1]
    IN  IF l.err # "nil" THEN [ret |-> <<>>, err |-> l.err]
        ELSE loop[Len(l.ret)]

-----------------------------------------------------------------------------
(* The resolver of the etcd backend (package rdns): names, keys, values *)

priority == 10      \* default priority when nothing is set
ttl      == 300     \* default ttl when nothing is set

errKeyNotFound == "key not found"
errBackend     == "backend failure"     \* an error Client.Get returned
errDecode      == "decode"              \* fmt.Errorf("%s: %s", n.Key, err.Error())

TypeA   == "A"
TypeTXT == "TXT"
TypeSRV == "SRV"
QTypes  == {TypeA, TypeTXT, TypeSRV}

IsNameError(err) == err = errKeyNotFound

\* labels
L_ex == <<"e", "x">>
L_lb == <<"l", "b">>
L_h  == <<"h">>
L_s  == <<"s">>
L_ss == <<"s", "s">>
L_t  == <<"t">>
L_ip == <<"1", "_", "2", "_", "3", "_", "4">>

\* a fully qualified name from its labels, leftmost first
Fqdn(labels) == Join(labels, ".") \o <<".">>

\* ETCD.Zones and ETCD.PathPrefix
Zones      == << Fqdn(<<L_lb, L_ex>>) >>
PathPrefix == <<"p">>

\* the names queried: the zone root, a host, names below the host, a name
\* below the host whose label is an IPv4 literal, and the host "lb.ex" of
\* the zone
QueryNames ==
    { Fqdn(<<L_lb, L_ex>>),
      Fqdn(<<L_h, L_lb, L_ex>>),
      Fqdn(<<L_s, L_h, L_lb, L_ex>>),
      Fqdn(<<L_ip, L_h, L_lb, L_ex>>),
      Fqdn(<<L_lb, L_ex, L_lb, L_ex>>) }

\* dns.SplitDomainName: the labels of a name, with or without the final dot
SplitDomainName(name) ==
    IF name = <<>> \/ name = <<".">> THEN <<>>
    ELSE Split(TrimSuffix(name, <<".">>), ".")

\* msg.Path: reverse-label encoding under the prefix
Path(s, prefix) ==
    Join(<< <<"/">> \o prefix >> \o Reverse(SplitDomainName(s)), "/")

\* msg.PathWithWildcard: the path up to, and excluding, the first "*"
\* segment, and whether there was one
PathWithWildcard(s, prefix) ==
    LET l == Reverse(SplitDomainName(s))
    IN  IF \E i \in 1..Len(l) : l[i] = <<"*">>
        THEN LET i == CHOOSE k \in 1..Len(l) :
                          l[k] = <<"*">> /\ \A m \in 1..(k - 1) : l[m] # <<"*">>
             IN  [path |-> Join(<< <<"/">> \o prefix >> \o SubSeq(l, 1, i - 1), "/"),
                  star |-> TRUE]
        ELSE [path |-> Join(<< <<"/">> \o prefix >> \o l, "/"), star |-> FALSE]

\* the keys of the keyspace, in etcd's (byte) order
KeyList ==
    << Path(Fqdn(<<L_h, L_lb, L_ex>>), PathPrefix),
       Path(Fqdn(<<L_ip, L_h, L_lb, L_ex>>), PathPrefix),
       Path(Fqdn(<<L_s, L_h, L_lb, L_ex>>), PathPrefix),
       Path(Fqdn(<<L_t, L_s, L_h, L_lb, L_ex>>), PathPrefix),
       Path(Fqdn(<<L_ss, L_h, L_lb, L_ex>>), PathPrefix) >>
Keys == SeqToSet(KeyList)

\* msg.Service
Service(host, text, sttl, prio, key) ==
    [host |-> host, text |-> text, ttl |-> sttl, priority |-> prio, key |-> key]

K_host     == <<"h", "o", "s", "t">>
K_ttl      == <<"t", "t", "l">>
K_priority == <<"p", "r", "i", "o", "r", "i", "t", "y">>

Host2 == <<"2", ".", "2", ".", "2", ".", "2">>

\* json.Marshal of a msg.Service: every field omitempty, Key never written
MarshalService(d) ==
    LET fs == (IF d.host # <<>> THEN <<JField(K_host, JStr(d.host))>> ELSE <<>>)
              \o (IF d.priority # 0
                  THEN <<JField(K_priority, Itoa(d.priority))>> ELSE <<>>)
              \o (IF d.text # <<>> THEN <<JField(K_text, JStr(d.text))>> ELSE <<>>)
              \o (IF d.ttl # 0 THEN <<JField(K_ttl, Itoa(d.ttl))>> ELSE <<>>)
    IN  <<"{">> \o Join(fs, ",") \o <<"}">>

\* the records writers store: an address, an address with its own ttl and
\* priority, a text
ServiceDocs ==
    { Service(Host1, <<>>, 0, 0, <<>>),
      Service(Host2, <<>>, 50, 20, <<>>),
      Service(<<>>, Text1, 0, 0, <<>>) }

ServiceTable == {<<MarshalService(d), d>> : d \in ServiceDocs}

\* a value that is not JSON
Malformed == <<"{">>

\* json.Unmarshal(n.Value, serv)
UnmarshalService(data) ==
    IF \E e \in ServiceTable : e[1] = data
    THEN [err |-> "nil", serv |-> (CHOOSE e \in ServiceTable : e[1] = data)[2]]
    ELSE [err |-> "json", serv |-> Service(<<>>, <<>>, 0, 0, <<>>)]

\* mvccpb.KeyValue
KeyValue(key, value, lease) == [key |-> key, value |-> value, lease |-> lease]

NoKV == [value |-> <<>>, lease |-> -1]

\* what a writer puts under a key: the value bytes and the lease
PutChoices ==
    { [value |-> MarshalService(Service(Host1, <<>>, 0, 0, <<>>)), lease |-> 0],
      [value |-> MarshalService(Service(Host2, <<>>, 50, 20, <<>>)), lease |-> 77],
      [value |-> MarshalService(Service(<<>>, Text1, 0, 0, <<>>)), lease |-> 100],
      [value |-> Malformed, lease |-> 0] }

\* which of the reads of one query fails: none, the one of pathExist, the
\* prefix read of get, the exact read of get
FailPoints == {"none", "exist", "prefix", "exact"}

\* Client.Get(ctx, path) and Client.Get(ctx, path, WithPrefix()): the stored
\* key/values at the key, or with the key prefix, in key order
ClientGet(kv, path, withPrefix) ==
    LET hit == SelectSeq(KeyList,
                   LAMBDA k : /\ kv[k] # NoKV
                              /\ IF withPrefix THEN HasPrefix(k, path) ELSE k = path)
    IN  [i \in 1..Len(hit) |-> KeyValue(hit[i], kv[hit[i]].value, kv[hit[i]].lease)]

-----------------------------------------------------------------------------
(* The resolver of the etcd backend: ETCD.Records and what it calls *)

\* ETCD.TTL: the smaller of the etcd TTL and the service's TTL, a default
\* when neither is set. uint32(kv.Lease) is kv.Lease for the leases written
\* here, all within 0..2^31-1.
TTL(kv, serv) ==
    LET etcdTTL == kv.lease
    IN  IF etcdTTL = 0 /\ serv.ttl = 0 THEN ttl
        ELSE IF etcdTTL = 0 THEN serv.ttl
        ELSE IF serv.ttl = 0 THEN etcdTTL
        ELSE IF etcdTTL < serv.ttl THEN etcdTTL
        ELSE serv.ttl

\* the inclusion test asking for a host whatever the type
shouldIncludeHost(serv, qType) == serv.host # <<>>

shouldInclude(serv, qType) ==
    IF qType = TypeTXT THEN serv.text # <<>> ELSE serv.host # <<>>

\* regexp.MatchString(`^\d{1,3}_\d{1,3}_\d{1,3}_\d{1,3}$`, s)
MatchIPv4Label(s) ==
    LET parts == Split(s, "_")
    IN  /\ Len(parts) = 4
        /\ \A i \in 1..4 :
              /\ Len(parts[i]) \in 1..3
              /\ \A j \in 1..Len(parts[i]) : IsDigit(parts[i][j])

\* ETCD.get: a result is [kvs, err, reads], reads the number of Client.Get
\* calls made
GetResponse(kvs, err, reads) == [kvs |-> kvs, err |-> err, reads |-> reads]

get(kv, path, recursive, fail) ==
    IF recursive
    THEN LET p1 == IF ~HasSuffix(path, <<"/">>) THEN path \o <<"/">> ELSE path
             r1 == ClientGet(kv, p1, TRUE)
         IN  IF fail = "prefix" THEN GetResponse(<<>>, errBackend, 1)
             ELSE IF Len(r1) = 0
             THEN LET p2 == TrimSuffix(p1, <<"/">>)
                      r2 == ClientGet(kv, p2, FALSE)
                  IN  IF fail = "exact" THEN GetResponse(<<>>, errBackend, 2)
                      ELSE IF Len(r2) = 0 THEN GetResponse(<<>>, errKeyNotFound, 2)
                      ELSE GetResponse(r2, "nil", 2)
             ELSE GetResponse(r1, "nil", 1)
    ELSE LET r == ClientGet(kv, path, FALSE)
         IN  IF fail = "exact" THEN GetResponse(<<>>, errBackend, 1)
             ELSE IF Len(r) = 0 THEN GetResponse(<<>>, errKeyNotFound, 1)
             ELSE GetResponse(r, "nil", 1)

\* ETCD.pathExist
pathExist(kv, ss, fail) ==
    LET path == PathWithWildcard(Join(ss, "."), PathPrefix).path
    IN  IF fail = "exist" THEN FALSE
        ELSE Len(ClientGet(kv, path, TRUE)) > 0

\* the test of filterKvs keeping the key/values at the level of the query
\* path instead of one level below it
keepKvSameLevel(v, segments, bound) ==
    LET ss == Split(v.key, "/")
        s  == segments[Len(segments)]
    IN  IF s # <<"*">> /\ MatchIPv4Label(s) /\ bound = Len(segments) - 3
        THEN FALSE
        ELSE \/ s # <<"*">> /\ Len(ss) - Len(segments) = 0
             \/ s = <<"*">> /\ Len(ss) - (Len(segments) - 1) = 0

\* the test of ETCD.filterKvs on one key/value of an A query
keepKv(v, segments, bound) ==
    LET ss == Split(v.key, "/")
        s  == segments[Len(segments)]
    IN  IF s # <<"*">> /\ MatchIPv4Label(s) /\ bound = Len(segments) - 3
        THEN FALSE
        ELSE \/ s # <<"*">> /\ Len(ss) - Len(segments) = 1
             \/ s = <<"*">> /\ Len(ss) - (Len(segments) - 1) = 1

\* no sibling filter: every fetched key/value is kept
filterKvsKeepAll(kvs, segments, qType, bound) == kvs

\* ETCD.filterKvs: kvs which do not contain sub domain records
filterKvs(kvs, segments, qType, bound) ==
    IF qType = TypeA
    THEN SelectSeq(kvs, LAMBDA v : keepKv(v, segments, bound))
    ELSE kvs

\* the match of a key against the name parts of a star query
starMatch(key, nameParts) ==
    LET keyParts == Split(key, "/")
    IN  \A i \in 1..Len(nameParts) :
           /\ i <= Len(keyParts)
           /\ \/ nameParts[i] = <<"*">>
              \/ nameParts[i] = <<"a", "n", "y">>
              \/ keyParts[i] = nameParts[i]

NodesResult(sx, err, badKey) == [sx |-> sx, err |-> err, badKey |-> badKey]

\* the loop of loopNodes with a malformed value skipped instead of
\* failing the query
RECURSIVE NodesSkipMalformed(_, _, _, _, _, _)
NodesSkipMalformed(kv, nameParts, star, qType, bx, sx) ==
    IF Len(kv) = 0 THEN NodesResult(sx, "nil", <<>>)
    ELSE LET n == Head(kv)
             u == UnmarshalService(n.value)
             serv == [u.serv EXCEPT !.key = n.key]
             out == [serv EXCEPT !.ttl = TTL(n, serv),
                                 !.priority = IF serv.priority = 0 THEN priority
                                              ELSE serv.priority]
         IN  IF star /\ ~starMatch(n.key, nameParts)
             THEN NodesSkipMalformed(Tail(kv), nameParts, star, qType, bx, sx)
             ELSE IF u.err # "nil"
             THEN NodesSkipMalformed(Tail(kv), nameParts, star, qType, bx, sx)
             ELSE IF serv \in bx
             THEN NodesSkipMalformed(Tail(kv), nameParts, star, qType, bx, sx)
             ELSE NodesSkipMalformed(Tail(kv), nameParts, star, qType, bx \cup {serv},
                        IF shouldInclude(out, qType) THEN Append(sx, out) ELSE sx)

\* the loop of ETCD.loopNodes from the key/values kv on, bx the services
\* seen and sx the services collected
RECURSIVE Nodes(_, _, _, _, _, _)
Nodes(kv, nameParts, star, qType, bx, sx) ==
    IF Len(kv) = 0 THEN NodesResult(sx, "nil", <<>>)
    ELSE LET n == Head(kv)
             u == UnmarshalService(n.value)
             serv == [u.serv EXCEPT !.key = n.key]
             out == [serv EXCEPT !.ttl = TTL(n, serv),
                                 !.priority = IF serv.priority = 0 THEN priority
                                              ELSE serv.priority]
         IN  IF star /\ ~starMatch(n.key, nameParts)
             THEN Nodes(Tail(kv), nameParts, star, qType, bx, sx)
             ELSE IF u.err # "nil"
             THEN NodesResult(<<>>, errDecode, n.key)
             ELSE IF serv \in bx
             THEN Nodes(Tail(kv), nameParts, star, qType, bx, sx)
             ELSE Nodes(Tail(kv), nameParts, star, qType, bx \cup {serv},
                        IF shouldInclude(out, qType) THEN Append(sx, out) ELSE sx)

loopNodes(kv, nameParts, star, qType) == Nodes(kv, nameParts, star, qType, {}, <<>>)

\* what Records returns, with what it did on the way: the number of backend
\* reads and the name it looked up
RecordsResult(sx, err, badKey, reads, lookup) ==
    [sx |-> sx, err |-> err, badKey |-> badKey, reads |-> reads, lookup |-> lookup]

\* ETCD.Records
Records(kv, bound, stateName, qType, exact, fail) ==
    IF \E i \in 1..Len(Zones) : HasPrefix(stateName, Zones[i])
    THEN RecordsResult(<<>>, "nil", <<>>, 0, stateName)
    ELSE LET temp     == SplitDomainName(stateName)
             asked    == bound > 0 /\ qType # TypeTXT /\ Len(temp) > bound
             collapse == asked /\ ~pathExist(kv, temp, fail)
             start    == Len(temp) - bound
             name     == IF collapse
                         THEN <<"*", ".">> \o Join(SubSeq(temp, start + 1, Len(temp)), ".")
                         ELSE stateName
             pw       == PathWithWildcard(name, PathPrefix)
             r        == get(kv, pw.path, ~exact, fail)
             segments == Split(Path(name, PathPrefix), "/")
             kvs      == filterKvs(r.kvs, segments, qType, bound)
             ln       == loopNodes(kvs, segments, pw.star, qType)
             reads    == (IF asked THEN 1 ELSE 0) + r.reads
         IN  IF r.err # "nil"
             THEN RecordsResult(<<>>, r.err, <<>>, reads, name)
             ELSE RecordsResult(ln.sx, ln.err, ln.badKey, reads, name)

-----------------------------------------------------------------------------
(* The flat backends as a state machine: one action per call, by one       *)
(* client at a time.                                                       *)

Store == [files |-> files, cms |-> cms]

NoValue == [type |-> "none", token |-> <<>>, fqdn |-> <<>>, createdOn |-> 0]

KvCall(op, name, valueType, arg, t, err, ret, names, tokens) ==
    [op |-> op, name |-> name, vtype |-> valueType, arg |-> arg, t |-> t,
     err |-> err, ret |-> ret, names |-> names, tokens |-> tokens]

NoKvCall == KvCall("none", <<>>, "", NoValue, 0, "nil", <<>>, <<>>, <<>>)

\* the cutoffs of the expiry sweep
Cutoffs == 1..(MaxTime + 1)

\* the value types that hold an object
Buckets ==
    IF driver = "filesystem" THEN {f[1] : f \in DOMAIN files}
    ELSE {cms[r].vtype : r \in DOMAIN cms}

\* a run works in one bucket at a time: a call on valueType is taken
\* while the other buckets are empty
OneBucket(valueType) == Buckets \subseteq {valueType}

DnsCall(op, name, qType, exact, fail, res) ==
    [op |-> op, name |-> name, qType |-> qType, exact |-> exact, fail |-> fail,
     sx |-> res.sx, err |-> res.err, badKey |-> res.badKey, reads |-> res.reads,
     lookup |-> res.lookup]

NoDnsCall ==
    DnsCall("none", <<>>, "", FALSE, "none", RecordsResult(<<>>, "nil", <<>>, 0, <<>>))

DnsIdle ==
    /\ etcd = [k \in Keys |-> NoKV]
    /\ WildcardBound = 0
    /\ dnsLast = NoDnsCall

\* the goroutines calling the store at the same time
Procs == {1, 2}

\* a call in progress: where it stands, what its check found, how it ended
Call(op, pc, create, seen, err) ==
    [op |-> op, pc |-> pc, create |-> create, seen |-> seen, err |-> err]

\* no call in progress, the mutex free
NoProcs ==
    [mux |-> 0, absent |-> TRUE,
     call |-> [p \in Procs |-> Call("none", "idle", FALSE, <<>>, "nil")]]

KvInit ==
    /\ driver \in {"filesystem", "k8s"}
    /\ files = <<>>
    /\ cms = <<>>
    /\ now = 1
    /\ kvLast = NoKvCall
    /\ procs = NoProcs

Commit(st) == files' = st.files /\ cms' = st.cms

Tick ==
    /\ now < MaxTime
    /\ now' = now + 1
    /\ kvLast' = KvCall("Tick", <<>>, "", NoValue, now + 1, "nil", <<>>, <<>>, <<>>)
    /\ UNCHANGED <<driver, files, cms, dnsVars, procs>>

\* store.SetValue(name, "token", &Token{...}) by any caller
CallSetValue ==
    \E name \in Names, token \in TokenVals :
        LET v == Token(token, name, now)
            r == SetValue(Store, name, TokenValueType, v)
        IN  /\ Commit(r.st)
            /\ kvLast' = KvCall("SetValue", name, TokenValueType, v, now, r.err,
                                <<>>, <<>>, <<>>)
            /\ UNCHANGED <<driver, now, dnsVars, procs>>

CallUpdateValue ==
    \E name \in Names, token \in TokenVals :
        LET v == Token(token, name, now)
            r == UpdateValue(Store, name, TokenValueType, v)
        IN  /\ Commit(r.st)
            /\ kvLast' = KvCall("UpdateValue", name, TokenValueType, v, now, r.err,
                                <<>>, <<>>, <<>>)
            /\ UNCHANGED <<driver, now, dnsVars, procs>>

CallDeleteValue ==
    \E name \in Names :
        LET r == DeleteValue(Store, name, TokenValueType)
        IN  /\ Commit(r.st)
            /\ kvLast' = KvCall("DeleteValue", name, TokenValueType, NoValue, now,
                                r.err, <<>>, <<>>, <<>>)
            /\ UNCHANGED <<driver, now, dnsVars, procs>>

CallGetValue ==
    \E name \in Names :
        LET r == GetValue(Store, name, TokenValueType, ZeroToken)
        IN  /\ kvLast' = KvCall("GetValue", name, TokenValueType, r.metadata, now,
                                r.err, r.ret, <<>>, <<>>)
            /\ UNCHANGED <<driver, files, cms, now, dnsVars, procs>>

CallGetExpiredValues ==
    \E valueType \in ValueTypes, t \in Cutoffs :
        LET r == GetExpiredValues(Store, valueType, t)
        IN  /\ kvLast' = KvCall("GetExpiredValues", <<>>, valueType, NoValue, t, r.err,
                                <<>>, r.ret, <<>>)
            /\ UNCHANGED <<driver, files, cms, now, dnsVars, procs>>

CallInsertFrozen ==
    \E prefix \in Names :
        LET r == InsertFrozen(Store, prefix)
        IN  /\ OneBucket(FrozenPrefixValueType)
            /\ Commit(r.st)
            /\ kvLast' = KvCall("InsertFrozen", prefix, FrozenPrefixValueType,
                                FrozenPrefix(<<>>, now), now, r.err, <<>>, <<>>, <<>>)
            /\ UNCHANGED <<driver, now, dnsVars, procs>>

CallQueryFrozen ==
    \E prefix \in Names :
        LET r == QueryFrozen(Store, prefix)
        IN  /\ OneBucket(FrozenPrefixValueType)
            /\ kvLast' = KvCall("QueryFrozen", prefix, FrozenPrefixValueType, NoValue,
                                now, r.err, r.ret, <<>>, <<>>)
            /\ UNCHANGED <<driver, files, cms, now, dnsVars, procs>>

CallRenewFrozen ==
    \E prefix \in Names :
        LET r == RenewFrozen(Store, prefix)
        IN  /\ OneBucket(FrozenPrefixValueType)
            /\ Commit(r.st)
            /\ kvLast' = KvCall("RenewFrozen", prefix, FrozenPrefixValueType, NoValue,
                                now, r.err, <<>>, <<>>, <<>>)
            /\ UNCHANGED <<driver, now, dnsVars, procs>>

CallDeleteFrozen ==
    \E prefix \in Names :
        LET r == DeleteFrozen(Store, prefix)
        IN  /\ Commit(r.st)
            /\ kvLast' = KvCall("DeleteFrozen", prefix, FrozenPrefixValueType, NoValue,
                                now, r.err, <<>>, <<>>, <<>>)
            /\ UNCHANGED <<driver, now, dnsVars, procs>>

CallDeleteExpiredFrozen ==
    \E t \in Cutoffs :
        LET r == DeleteExpiredFrozen(Store, t)
        IN  /\ Commit(r.st)
            /\ kvLast' = KvCall("DeleteExpiredFrozen", <<>>, FrozenPrefixValueType,
                                NoValue, t, r.err, <<>>, <<>>, <<>>)
            /\ UNCHANGED <<driver, now, dnsVars, procs>>

CallMigrateFrozen ==
    \E prefix \in Names, expiration \in 0..MaxTime :
        LET r == MigrateFrozen(Store, prefix, expiration)
        IN  /\ OneBucket(FrozenPrefixValueType)
            /\ Commit(r.st)
            /\ kvLast' = KvCall("MigrateFrozen", prefix, FrozenPrefixValueType,
                                FrozenPrefix(<<>>, expiration), expiration, r.err,
                                <<>>, <<>>, <<>>)
            /\ UNCHANGED <<driver, now, dnsVars, procs>>

CallInsertToken ==
    \E token \in TokenVals, name \in Names :
        LET r == InsertToken(Store, token, name)
        IN  /\ OneBucket(TokenValueType)
            /\ Commit(r.st)
            /\ kvLast' = KvCall("InsertToken", name, TokenValueType,
                                Token(token, name, r.ret), r.ret, r.err, <<>>, <<>>, <<>>)
            /\ UNCHANGED <<driver, now, dnsVars, procs>>

CallQueryExpiredTokens ==
    \E t \in Cutoffs :
        LET r == QueryExpiredTokens(Store, t)
        IN  /\ kvLast' = KvCall("QueryExpiredTokens", <<>>, TokenValueType, NoValue, t,
                                r.err, <<>>, <<>>, r.ret)
            /\ UNCHANGED <<driver, files, cms, now, dnsVars, procs>>

CallRenewToken ==
    \E name \in Names :
        LET r == RenewToken(Store, name)
        IN  /\ OneBucket(TokenValueType)
            /\ Commit(r.st)
            /\ kvLast' = KvCall("RenewToken", name, TokenValueType, NoValue, r.ret,
                                r.err, <<>>, <<>>, <<>>)
            /\ UNCHANGED <<driver, now, dnsVars, procs>>

CallDeleteToken ==
    \E token \in TokenVals \cup {<<>>} :
        LET r == DeleteToken(Store, token)
        IN  /\ OneBucket(TokenValueType)
            /\ Commit(r.st)
            /\ kvLast' = KvCall("DeleteToken", <<>>, TokenValueType, token, now,
                                r.err, <<>>, <<>>, <<>>)
            /\ UNCHANGED <<driver, now, dnsVars, procs>>

CallSweepTokens ==
    \E t \in Cutoffs :
        LET r == SweepTokens(Store, t)
        IN  /\ OneBucket(TokenValueType)
            /\ Commit(r.st)
            /\ kvLast' = KvCall("SweepTokens", <<>>, TokenValueType, NoValue, t,
                                r.err, <<>>, <<>>, r.ret)
            /\ UNCHANGED <<driver, now, dnsVars, procs>>

CallMigrateToken ==
    \E token \in TokenVals, name \in Names, expiration \in 0..MaxTime :
        LET r == MigrateToken(Store, token, name, expiration)
        IN  /\ OneBucket(TokenValueType)
            /\ Commit(r.st)
            /\ kvLast' = KvCall("MigrateToken", name, TokenValueType,
                                Token(token, name, expiration), expiration, r.err,
                                <<>>, <<>>, <<>>)
            /\ UNCHANGED <<driver, now, dnsVars, procs>>

\* the KeyValueStore contract, called directly on the token bucket
StoreNext ==
    \/ Tick
    \/ CallSetValue
    \/ CallUpdateValue
    \/ CallDeleteValue
    \/ CallGetValue
    \/ CallGetExpiredValues
    \/ CallInsertToken

\* the KeyValueStore contract, called on any bucket
CallSetValueIn ==
    \E name \in Names, valueType \in ValueTypes, token \in TokenVals :
        LET v == Token(token, name, now)
            r == SetValue(Store, name, valueType, v)
        IN  /\ Commit(r.st)
            /\ kvLast' = KvCall("SetValue", name, valueType, v, now, r.err,
                                <<>>, <<>>, <<>>)
            /\ UNCHANGED <<driver, now, dnsVars, procs>>

CallUpdateValueIn ==
    \E name \in Names, valueType \in ValueTypes, token \in TokenVals :
        LET v == Token(token, name, now)
            r == UpdateValue(Store, name, valueType, v)
        IN  /\ Commit(r.st)
            /\ kvLast' = KvCall("UpdateValue", name, valueType, v, now, r.err,
                                <<>>, <<>>, <<>>)
            /\ UNCHANGED <<driver, now, dnsVars, procs>>

CallDeleteValueIn ==
    \E name \in Names, valueType \in ValueTypes :
        LET r == DeleteValue(Store, name, valueType)
        IN  /\ Commit(r.st)
            /\ kvLast' = KvCall("DeleteValue", name, valueType, NoValue, now,
                                r.err, <<>>, <<>>, <<>>)
            /\ UNCHANGED <<driver, now, dnsVars, procs>>

CallGetValueIn ==
    \E name \in Names, valueType \in ValueTypes :
        LET r == GetValue(Store, name, valueType, ZeroToken)
        IN  /\ kvLast' = KvCall("GetValue", name, valueType, r.metadata, now,
                                r.err, r.ret, <<>>, <<>>)
            /\ UNCHANGED <<driver, files, cms, now, dnsVars, procs>>

CallListValues ==
    \E valueType \in ValueTypes :
        LET r == ListValues(Store, valueType)
        IN  /\ kvLast' = KvCall("ListValues", <<>>, valueType, NoValue, now, r.err,
                                <<>>, r.ret, <<>>)
            /\ UNCHANGED <<driver, files, cms, now, dnsVars, procs>>

PartsNext ==
    \/ CallSetValueIn
    \/ CallUpdateValueIn
    \/ CallDeleteValueIn
    \/ CallGetValueIn
    \/ CallListValues

\* the record store: sub-A and TXT records of the owners in Tids
CallInsertSubA ==
    \E name \in Names, tid \in Tids :
        LET a == SubRecordA(name, <<Host1>>, tid)
            r == InsertSubA(Store, a)
        IN  /\ Commit(r.st)
            /\ kvLast' = KvCall("InsertSubA", name, SubARecordValueType, a, tid, r.err,
                                <<>>, <<>>, <<>>)
            /\ UNCHANGED <<driver, now, dnsVars, procs>>

CallInsertTXT ==
    \E name \in Names, tid \in Tids :
        LET a == RecordTXT(name, Text1, tid)
            r == InsertTXT(Store, a)
        IN  /\ Commit(r.st)
            /\ kvLast' = KvCall("InsertTXT", name, TXTRecordValueType, a, tid, r.err,
                                <<>>, <<>>, <<>>)
            /\ UNCHANGED <<driver, now, dnsVars, procs>>

CallListSubA ==
    \E id \in Tids :
        LET r == ListSubA(Store, id)
        IN  /\ kvLast' = KvCall("ListSubA", <<>>, SubARecordValueType, NoValue, id,
                                r.err, <<>>, <<>>, r.ret)
            /\ UNCHANGED <<driver, files, cms, now, dnsVars, procs>>

CallQueryExpiredTXTs ==
    \E id \in Tids :
        LET r == QueryExpiredTXTs(Store, id)
        IN  /\ kvLast' = KvCall("QueryExpiredTXTs", <<>>, TXTRecordValueType, NoValue,
                                id, r.err, <<>>, <<>>, r.ret)
            /\ UNCHANGED <<driver, files, cms, now, dnsVars, procs>>

RecNext ==
    \/ CallInsertSubA
    \/ CallInsertTXT
    \/ CallListSubA
    \/ CallQueryExpiredTXTs

\* the flat backend of a process whose resolver is not in use
FlatInit == KvInit /\ DnsIdle

SpecStore == FlatInit /\ [][StoreNext]_vars

\* the record store as the service drives it: tokens and frozen prefixes
KvNext ==
    \/ Tick
    \/ CallGetExpiredValues
    \/ CallInsertFrozen
    \/ CallQueryFrozen
    \/ CallRenewFrozen
    \/ CallDeleteFrozen
    \/ CallDeleteExpiredFrozen
    \/ CallMigrateFrozen
    \/ CallInsertToken
    \/ CallQueryExpiredTokens
    \/ CallRenewToken
    \/ CallDeleteToken
    \/ CallSweepTokens
    \/ CallMigrateToken

SpecKV == FlatInit /\ [][KvNext]_vars

SpecParts == FlatInit /\ [][PartsNext]_vars

SpecRec == FlatInit /\ [][RecNext]_vars

-----------------------------------------------------------------------------
(* Two goroutines calling the flat backend on one key. A call is a sequence
   of steps: taking the mutex where the code takes one, the existence check
   (os.OpenFile or fileExists; client.Get), and the write (f.Write, os.Remove;
   client.Create, Update, Delete). The filesystem takes the package mutex in
   every call; k8s takes s.mux in DeleteValue only. *)

ConcOps == {"SetValue", "UpdateValue", "DeleteValue"}

\* the token a goroutine writes under the key NameList[1]
ConcValue(p) == Token(IF p = 1 THEN <<"x">> ELSE <<"y", "y">>, NameList[1], now)

\* the key is absent, or holds a token written earlier; each goroutine has
\* been handed a call
ConcInit ==
    /\ driver \in {"filesystem", "k8s"}
    /\ now = 1
    /\ kvLast = NoKvCall
    /\ DnsIdle
    /\ \E absent \in BOOLEAN :
          LET empty == [files |-> <<>>, cms |-> <<>>]
              st    == IF absent THEN empty
                       ELSE SetValue(empty, NameList[1], TokenValueType,
                                     Token(<<"x">>, NameList[1], now)).st
          IN  /\ files = st.files
              /\ cms = st.cms
              /\ procs \in {[mux |-> 0, absent |-> absent, call |-> c] :
                                c \in [Procs -> {Call(op, "start", FALSE, <<>>, "nil") :
                                                   op \in ConcOps}]}

\* a return that leaves the mutex with the goroutine that took it
ReturnHolding(p, err) ==
    [procs EXCEPT !.call[p].pc = "done", !.call[p].err = err]

\* how a call ends: its result is kept and the mutex it holds is released
Return(p, err) ==
    [procs EXCEPT !.call[p].pc = "done", !.call[p].err = err,
                  !.mux = IF procs.mux = p THEN 0 ELSE procs.mux]

\* mux.Lock() of the filesystem, s.mux.Lock() of K8sStore.DeleteValue
Lock(p) ==
    /\ procs.call[p].pc = "start"
    /\ driver = "filesystem" \/ procs.call[p].op = "DeleteValue"
    /\ procs.mux = 0
    /\ procs' = [procs EXCEPT !.mux = p, !.call[p].pc = "locked"]
    /\ UNCHANGED <<driver, files, cms, now, kvLast, dnsVars>>

\* the existence check. Filesystem: os.OpenFile, which fails on an existing
\* file under O_EXCL and creates an absent one, or fileExists in DeleteValue.
\* k8s: client.Get, which sets create and leaves the object read in cm.
Check(p) ==
    LET c        == procs.call[p]
        filename == FsFilename(NameList[1], TokenValueType)
        rname    == generateName(NameList[1], TokenValueType)
    IN  /\ c.op \in ConcOps
        /\ IF driver = "filesystem" \/ c.op = "DeleteValue"
           THEN c.pc = "locked"
           ELSE c.pc = "start"
        /\ IF driver = "filesystem"
           THEN /\ cms' = cms
                /\ IF c.op = "DeleteValue"
                   THEN /\ files' = files
                        /\ procs' = IF filename \in DOMAIN files
                                     THEN [procs EXCEPT !.call[p].pc = "checked"]
                                     ELSE Return(p, "nil")
                   ELSE IF c.op = "SetValue" /\ filename \in DOMAIN files
                   THEN /\ files' = files
                        /\ procs' = Return(p, "EEXIST")
                   ELSE /\ files' = IF filename \in DOMAIN files THEN files
                                     ELSE (filename :> <<>>) @@ files
                        /\ procs' = [procs EXCEPT !.call[p].pc = "checked"]
           ELSE /\ files' = files
                /\ cms' = cms
                /\ procs' = IF rname \in DOMAIN cms
                             THEN [procs EXCEPT !.call[p].pc = "checked",
                                                !.call[p].create = FALSE,
                                                !.call[p].seen = cms[rname].data]
                             ELSE IF c.op = "DeleteValue" THEN Return(p, "nil")
                             ELSE [procs EXCEPT !.call[p].pc = "checked",
                                                !.call[p].create = TRUE]
        /\ UNCHANGED <<driver, now, kvLast, dnsVars>>

\* the write. Filesystem: f.Write at offset 0 of the file opened, or
\* os.Remove. k8s: client.Create when the check found nothing, client.Update
\* of the object read otherwise (refused when the object has changed since,
\* or is gone), client.Delete.
Write(p) ==
    LET c     == procs.call[p]
        rname == generateName(NameList[1], TokenValueType)
        obj   == ConfigMap(NameList[1], TokenValueType, Marshal(ConcValue(p)))
        r     == IF driver = "filesystem"
                 THEN IF c.op = "DeleteValue"
                      THEN FsDeleteValue(files, NameList[1], TokenValueType)
                      ELSE FsWriteValue(files, NameList[1], TokenValueType,
                                        ConcValue(p), TRUE)
                 ELSE [files |-> files, err |-> "nil"]
        k     == IF driver = "filesystem" THEN [cms |-> cms, err |-> r.err]
                 ELSE IF c.op = "DeleteValue"
                 THEN IF rname \in DOMAIN cms
                      THEN K8sDeleteValue(cms, NameList[1], TokenValueType)
                      ELSE [cms |-> cms, err |-> "NotFound"]
                 ELSE IF c.create THEN K8sCreate(cms, rname, obj)
                 ELSE IF rname \in DOMAIN cms /\ cms[rname].data # c.seen
                 THEN [cms |-> cms, err |-> "Conflict"]
                 ELSE K8sUpdate(cms, rname, obj)
    IN  /\ c.pc = "checked"
        /\ files' = r.files
        /\ cms' = k.cms
        /\ procs' = Return(p, k.err)
        /\ UNCHANGED <<driver, now, kvLast, dnsVars>>

ConcNext ==
    \/ \E p \in Procs : Lock(p)
    \/ \E p \in Procs : Check(p)
    \/ \E p \in Procs : Write(p)

SpecConc == ConcInit /\ [][ConcNext]_vars

-----------------------------------------------------------------------------
(* The package mutex of the filesystem backend under every call of the
   store. writeValue, DeleteValue and GetValue take it on entry and release
   it by defer; ListValues takes none; GetExpiredValues reads the directory
   without it and then calls GetValue, which takes and releases it, once per
   name. *)

LockOps == ConcOps \cup {"GetValue", "ListValues", "GetExpiredValues"}

\* where a call begins: at the directory read for the two that list, at
\* mux.Lock() for the others
Entry(op) == IF op \in {"ListValues", "GetExpiredValues"} THEN "list" ELSE "start"

LockInit ==
    /\ driver = "filesystem"
    /\ now = 1
    /\ kvLast = NoKvCall
    /\ DnsIdle
    /\ cms = <<>>
    /\ \E absent \in BOOLEAN :
          /\ files = IF absent THEN <<>>
                     ELSE FsSetValue(<<>>, NameList[1], TokenValueType,
                                     Token(<<"y", "y">>, NameList[1], now)).files
          /\ procs \in {[mux |-> 0, absent |-> absent, call |-> c] :
                            c \in [Procs -> {Call(op, Entry(op), FALSE, <<>>, "nil") :
                                               op \in LockOps}]}

\* ioutil.ReadDir of ListValues and of GetExpiredValues, outside the mutex;
\* seen keeps the names GetExpiredValues has still to read
ListDir(p) ==
    LET c     == procs.call[p]
        names == FsReadDir(files, TokenValueType)
    IN  /\ c.pc = "list"
        /\ procs' = IF c.op = "ListValues" \/ names = <<>>
                     THEN Return(p, "nil")
                     ELSE [procs EXCEPT !.call[p].pc = "start", !.call[p].seen = names]
        /\ UNCHANGED <<driver, files, cms, now, kvLast, dnsVars>>

\* the body of GetValue under the mutex, and its return; in
\* GetExpiredValues the loop then ends on an error or on the last name, or
\* goes on to the GetValue of the next name
Read(p) ==
    LET c == procs.call[p]
        g == FsGetValue(files, IF c.op = "GetValue" THEN NameList[1] ELSE Head(c.seen),
                        TokenValueType, ZeroToken)
    IN  /\ c.pc = "locked"
        /\ c.op \in {"GetValue", "GetExpiredValues"}
        /\ procs' = IF c.op = "GetValue" \/ g.err # "nil" \/ Tail(c.seen) = <<>>
                     THEN Return(p, g.err)
                     ELSE [Return(p, "nil") EXCEPT !.call[p].pc = "start",
                                                   !.call[p].seen = Tail(c.seen)]
        /\ UNCHANGED <<driver, files, cms, now, kvLast, dnsVars>>

LockNext ==
    \/ \E p \in Procs : ListDir(p)
    \/ \E p \in Procs : Lock(p)
    \/ \E p \in Procs : Check(p)
    \/ \E p \in Procs : Write(p)
    \/ \E p \in Procs : Read(p)

\* the Go scheduler runs every goroutine that can take a step, and
\* sync.Mutex hands the mutex to a goroutine waiting for it
SpecLock ==
    /\ LockInit
    /\ [][LockNext]_vars
    /\ \A p \in Procs :
          /\ WF_vars(ListDir(p))
          /\ WF_vars(Lock(p))
          /\ WF_vars(Check(p))
          /\ WF_vars(Write(p))
          /\ WF_vars(Read(p))

-----------------------------------------------------------------------------
(* The expiry sweep running beside other clients. DeleteExpiredFrozen and
   QueryExpiredTokens are sequences of store calls: the listing of the
   bucket, one GetValue per listed name (GetExpiredValues), then one
   DeleteValue or one QueryToken per name found expired. Each store call is
   one step; the calls of the other clients fall between the steps. *)

SweepOps == {"DeleteExpiredFrozen", "QueryExpiredTokens"}

SweepBucket(op) ==
    IF op = "DeleteExpiredFrozen" THEN FrozenPrefixValueType ELSE TokenValueType

\* a sweep in progress: the names still to read, the names found expired
\* and still to act on, the tokens collected
Sweep(op, t, pc, names, expired, result, err) ==
    [op |-> op, t |-> t, pc |-> pc, names |-> names, expired |-> expired,
     result |-> result, err |-> err]

\* the loop heads: a range over no name falls through to what follows
SweepGoto(c) ==
    IF c.pc = "read" /\ c.names = <<>> /\ c.expired = <<>> THEN [c EXCEPT !.pc = "done"]
    ELSE IF c.pc = "read" /\ c.names = <<>> THEN [c EXCEPT !.pc = "act"]
    ELSE IF c.pc = "act" /\ c.expired = <<>> THEN [c EXCEPT !.pc = "done"]
    ELSE c

\* the listing GetExpiredValues starts with: ioutil.ReadDir, s.ListValues
SweepList ==
    \E op \in SweepOps, t \in Cutoffs :
        LET l == ListValues(Store, SweepBucket(op))
        IN  /\ procs.call[1].pc \in {"idle", "done"}
            /\ OneBucket(SweepBucket(op))
            /\ procs' = [procs EXCEPT !.call[1] =
                             IF l.err # "nil"
                             THEN Sweep(op, t, "done", <<>>, <<>>, <<>>, l.err)
                             ELSE SweepGoto(Sweep(op, t, "read", l.ret, <<>>, <<>>, "nil"))]
            /\ kvLast' = KvCall(op \o ".ListValues", <<>>, SweepBucket(op), NoValue, t,
                                l.err, <<>>, l.ret, <<>>)
            /\ UNCHANGED <<driver, files, cms, now, dnsVars>>

\* one turn of the loop of GetExpiredValues: GetValue of the next listed
\* name into a record of its createdOn, compared with the cutoff
SweepRead ==
    LET c == procs.call[1]
        g == GetValue(Store, Head(c.names), SweepBucket(c.op), CreatedOnRecord)
    IN  /\ c.pc = "read"
        /\ procs' = [procs EXCEPT !.call[1] =
                         IF g.err # "nil"
                         THEN [c EXCEPT !.pc = "done", !.err = g.err]
                         ELSE SweepGoto([c EXCEPT !.names = Tail(c.names),
                                                  !.expired =
                                                      IF g.metadata.createdOn < c.t
                                                      THEN Append(c.expired, Head(c.names))
                                                      ELSE c.expired])]
        /\ kvLast' = KvCall(c.op \o ".GetValue", Head(c.names), SweepBucket(c.op),
                            g.metadata, c.t, g.err, <<>>, <<>>, <<>>)
        /\ UNCHANGED <<driver, files, cms, now, dnsVars>>

\* one turn of the loop over the expired names: DeleteValue in
\* DeleteExpiredFrozen, QueryToken and append in QueryExpiredTokens
SweepAct ==
    LET c    == procs.call[1]
        name == Head(c.expired)
        d    == DeleteValue(Store, name, FrozenPrefixValueType)
        q    == QueryToken(Store, name)
    IN  /\ c.pc = "act"
        /\ IF c.op = "DeleteExpiredFrozen"
           THEN /\ Commit(d.st)
                /\ procs' = [procs EXCEPT !.call[1] =
                                 IF d.err # "nil"
                                 THEN [c EXCEPT !.pc = "done", !.err = d.err]
                                 ELSE SweepGoto([c EXCEPT !.expired = Tail(c.expired)])]
                /\ kvLast' = KvCall("DeleteExpiredFrozen.DeleteValue", name,
                                    FrozenPrefixValueType, NoValue, c.t, d.err,
                                    <<>>, <<>>, <<>>)
           ELSE /\ Commit(Store)
                /\ procs' = [procs EXCEPT !.call[1] =
                                 IF q.err # "nil"
                                 THEN [c EXCEPT !.pc = "done", !.err = q.err,
                                                !.result = <<>>]
                                 ELSE SweepGoto([c EXCEPT !.expired = Tail(c.expired),
                                                          !.result = Append(c.result, q.token)])]
                /\ kvLast' = KvCall("QueryExpiredTokens.QueryToken", name,
                                    TokenValueType, q.token, c.t, q.err,
                                    <<>>, <<>>, <<>>)
        /\ UNCHANGED <<driver, now, dnsVars>>

\* the sweep and the clients it runs beside
SweepNext ==
    \/ Tick
    \/ CallInsertFrozen
    \/ CallInsertToken
    \/ CallRenewToken
    \/ CallDeleteValueIn
    \/ SweepList
    \/ SweepRead
    \/ SweepAct

SpecSweep == FlatInit /\ [][SweepNext]_vars

-----------------------------------------------------------------------------
(* The resolver as a state machine: writers put and delete keys, the DNS   *)
(* server calls Records.                                                   *)

\* the configured wildcard bounds: none, and one label more than the zone has
WildcardBounds == {0, Len(SplitDomainName(Zones[1])) + 1}

StoredKeys == {k \in Keys : etcd[k] # NoKV}

DnsInit ==
    /\ etcd = [k \in Keys |-> NoKV]
    /\ WildcardBound \in WildcardBounds
    /\ dnsLast = NoDnsCall

KvIdle ==
    /\ driver = "filesystem"
    /\ files = <<>>
    /\ cms = <<>>
    /\ now = 1
    /\ kvLast = NoKvCall
    /\ procs = NoProcs

EtcdPut ==
    \E k \in Keys, v \in PutChoices :
        /\ Cardinality(StoredKeys \cup {k}) <= MaxKeys
        /\ etcd' = [etcd EXCEPT ![k] = v]
        /\ dnsLast' = NoDnsCall
        /\ UNCHANGED <<WildcardBound, kvVars, procs>>

EtcdDelete ==
    \E k \in StoredKeys :
        /\ etcd' = [etcd EXCEPT ![k] = NoKV]
        /\ dnsLast' = NoDnsCall
        /\ UNCHANGED <<WildcardBound, kvVars, procs>>

\* Records reads the keyspace and changes nothing: a second query between
\* the same two writes sees what the first saw, so one is answered
CallRecords ==
    \E name \in QueryNames, qType \in QTypes, exact \in BOOLEAN, fail \in FailPoints :
        /\ dnsLast.op = "none"
        /\ dnsLast' = DnsCall("Records", name, qType, exact, fail,
                              Records(etcd, WildcardBound, name, qType, exact, fail))
        /\ UNCHANGED <<etcd, WildcardBound, kvVars, procs>>

DnsNext ==
    \/ EtcdPut
    \/ EtcdDelete
    \/ CallRecords

\* the resolver of a process whose flat backend is not in use
ResolverInit == KvIdle /\ DnsInit

SpecDNS == ResolverInit /\ [][DnsNext]_vars

-----------------------------------------------------------------------------
(* Claims about the flat backends *)

\* whether (name, valueType) holds an object, and its bytes
Present(st, name, valueType) ==
    IF driver = "filesystem" THEN FsFilename(name, valueType) \in DOMAIN st.files
    ELSE generateName(name, valueType) \in DOMAIN st.cms

Bytes(st, name, valueType) ==
    IF driver = "filesystem" THEN st.files[FsFilename(name, valueType)]
    ELSE st.cms[generateName(name, valueType)].data

\* the createdOn field of the stored object
StoredCreatedOn(st, name, valueType) == Unmarshal(Bytes(st, name, valueType)).doc.createdOn

\* C1: SetValue (and so InsertToken) on a key that holds a value returns an
\* error and leaves the stored bytes as they were; on an absent key it
\* stores the serialization of the value.
C1_CreateOnly ==
    [][kvLast'.op \in {"SetValue", "InsertToken"} =>
        LET name == kvLast'.name
            vt   == kvLast'.vtype
        IN  IF Present(Store, name, vt)
            THEN /\ kvLast'.err # "nil"
                 /\ Present(Store', name, vt)
                 /\ Bytes(Store', name, vt) = Bytes(Store, name, vt)
            ELSE /\ kvLast'.err = "nil"
                 /\ Present(Store', name, vt)
                 /\ Bytes(Store', name, vt) = Marshal(kvLast'.arg)]_vars

\* C2: after UpdateValue(name, type, v) returned no error, GetValue(name,
\* type) returns exactly the serialization of v and no error, whatever was
\* stored before.
C2_ReadYourWrite ==
    (kvLast.op = "UpdateValue" /\ kvLast.err = "nil") =>
        LET g == GetValue(Store, kvLast.name, kvLast.vtype, ZeroToken)
        IN  g.err = "nil" /\ g.ret = Marshal(kvLast.arg)

\* C3: after RenewFrozen(prefix) returned no error on a prefix that has a
\* frozen-prefix record, the stored createdOn is the time of the call, and
\* no cutoff at or before that time reports the prefix expired.
C3_RenewFrozenPersists ==
    (/\ kvLast.op = "RenewFrozen"
     /\ kvLast.err = "nil"
     /\ Present(Store, kvLast.name, FrozenPrefixValueType)) =>
        /\ StoredCreatedOn(Store, kvLast.name, FrozenPrefixValueType) = kvLast.t
        /\ \A t \in Cutoffs :
              t <= kvLast.t =>
                kvLast.name \notin
                  SeqToSet(GetExpiredValues(Store, FrozenPrefixValueType, t).ret)

\* the names of valueType whose stored createdOn is before t
ExpiredNames(st, valueType, t) ==
    {n \in Names : Present(st, n, valueType) /\ StoredCreatedOn(st, n, valueType) < t}

\* what C4 says of the call that led to the current state
ExpiredReported ==
    /\ kvLast.op = "GetExpiredValues" =>
          /\ kvLast.err = "nil"
          /\ SeqToSet(kvLast.names) = ExpiredNames(Store, kvLast.vtype, kvLast.t)
          /\ Len(kvLast.names) = Cardinality(SeqToSet(kvLast.names))
    /\ kvLast.op = "QueryExpiredTokens" =>
          /\ kvLast.err = "nil"
          /\ Len(kvLast.tokens) = Cardinality(ExpiredNames(Store, TokenValueType, kvLast.t))
          /\ \A n \in Names :
                (n \in ExpiredNames(Store, TokenValueType, kvLast.t)) <=>
                (\E i \in 1..Len(kvLast.tokens) :
                    /\ kvLast.tokens[i].createdOn < kvLast.t
                    /\ Present(Store, n, TokenValueType)
                    /\ Marshal(kvLast.tokens[i]) = Bytes(Store, n, TokenValueType))

\* C4: GetExpiredValues(type, t) returns exactly the names of that type whose
\* stored createdOn is < t; QueryExpiredTokens(t) returns exactly the tokens
\* with createdOn < t; DeleteExpiredFrozen(t) removes exactly the frozen
\* prefixes with createdOn < t and leaves the others as they were.
C4_ExpiryExact ==
    [][/\ ExpiredReported'
       /\ kvLast'.op = "DeleteExpiredFrozen" =>
            /\ kvLast'.err = "nil"
            /\ \A n \in Names :
                  IF n \in ExpiredNames(Store, FrozenPrefixValueType, kvLast'.t)
                  THEN ~Present(Store', n, FrozenPrefixValueType)
                  ELSE /\ Present(Store', n, FrozenPrefixValueType)
                          = Present(Store, n, FrozenPrefixValueType)
                       /\ Present(Store, n, FrozenPrefixValueType) =>
                            Bytes(Store', n, FrozenPrefixValueType)
                            = Bytes(Store, n, FrozenPrefixValueType)]_vars

\* a sweep that found one of two stored tokens expired, the other one
\* created exactly at the cutoff
C4_Witness ==
    /\ kvLast.op = "QueryExpiredTokens"
    /\ Len(kvLast.tokens) = 1
    /\ \E n \in Names :
          /\ Present(Store, n, TokenValueType)
          /\ StoredCreatedOn(Store, n, TokenValueType) = kvLast.t

-----------------------------------------------------------------------------
(* Claims about the resolver *)

IsRecordsCall == dnsLast.op = "Records"

\* the zone filter answered: the name begins with the text of a zone
ZoneFiltered(name) == \E i \in 1..Len(Zones) : HasPrefix(name, Zones[i])

ZoneRoot(name) == \E i \in 1..Len(Zones) : name = Zones[i]

KeyOf(name) == Path(name, PathPrefix)

Depth(key) == Len(Split(key, "/"))

WellFormed(k) == etcd[k] # NoKV /\ UnmarshalService(etcd[k].value).err = "nil"

StoredDoc(k) == UnmarshalService(etcd[k].value).serv

\* the collapse asks whether the path exists
Asked(name, qType) ==
    WildcardBound > 0 /\ qType # TypeTXT /\ Len(SplitDomainName(name)) > WildcardBound

\* the path the looked-up name stands for: without the "*" of a collapsed name
LookupBase == PathWithWildcard(dnsLast.lookup, PathPrefix).path

\* the key/values the last query decodes, in order: fetched, kept by the
\* sibling filter, matching the star
Decoded ==
    LET pw   == PathWithWildcard(dnsLast.lookup, PathPrefix)
        r    == get(etcd, pw.path, ~dnsLast.exact, dnsLast.fail)
        segs == Split(Path(dnsLast.lookup, PathPrefix), "/")
    IN  IF r.err # "nil" THEN <<>>
        ELSE SelectSeq(filterKvs(r.kvs, segs, dnsLast.qType, WildcardBound),
                       LAMBDA v : ~pw.star \/ starMatch(v.key, segs))

FirstMalformed ==
    CHOOSE i \in 1..Len(Decoded) :
        /\ UnmarshalService(Decoded[i].value).err # "nil"
        /\ \A j \in 1..(i - 1) : UnmarshalService(Decoded[j].value).err = "nil"

C6_CollapseIff ==
    (IsRecordsCall /\ ~ZoneFiltered(dnsLast.name)) =>
        LET labels == SplitDomainName(dnsLast.name)
            n      == Len(labels)
        IN  IF /\ Asked(dnsLast.name, dnsLast.qType)
               /\ ~\E k \in StoredKeys : HasPrefix(k, KeyOf(dnsLast.name))
            THEN dnsLast.lookup =
                     <<"*", ".">> \o Join(SubSeq(labels, n - WildcardBound + 1, n), ".")
            ELSE dnsLast.lookup = dnsLast.name

\* C7: empty result, no error and no backend read exactly when the name is
\* a zone root; any other name is looked up in the backend
C7_ZoneRootOnly ==
    IsRecordsCall =>
        IF ZoneRoot(dnsLast.name)
        THEN dnsLast.sx = <<>> /\ dnsLast.err = "nil" /\ dnsLast.reads = 0
        ELSE dnsLast.reads >= 1

\* C8: key-not-found when nothing is stored at or below the path looked up;
\* IsNameError exactly for that sentinel; a read that fails is returned as
\* that failure
C8_NotFoundOrFailure ==
    (IsRecordsCall /\ ~ZoneFiltered(dnsLast.name)) =>
        /\ (IsNameError(dnsLast.err) <=> dnsLast.err = errKeyNotFound)
        /\ ~IsNameError(errBackend) /\ ~IsNameError(errDecode) /\ ~IsNameError("nil")
        /\ (/\ dnsLast.fail = "none"
            /\ ~\E k \in StoredKeys : k = LookupBase \/ HasPrefix(k, LookupBase \o <<"/">>))
           => dnsLast.err = errKeyNotFound
        /\ (\/ dnsLast.fail = "exist" /\ Asked(dnsLast.name, dnsLast.qType)
            \/ dnsLast.fail = "prefix" /\ ~dnsLast.exact
            \/ dnsLast.fail = "exact" /\ dnsLast.exact)
           => dnsLast.err = errBackend /\ dnsLast.sx = <<>>

\* C9 (as amended): when one of the key/values the query decodes is
\* malformed JSON, the whole query fails: no Service is returned, not even
\* of the well-formed records before it, and the error, which names the
\* first malformed key, is not the key-not-found sentinel
C9_DecodeFailsQuery ==
    (/\ IsRecordsCall /\ ~ZoneFiltered(dnsLast.name)
     /\ \E i \in 1..Len(Decoded) : UnmarshalService(Decoded[i].value).err # "nil")
    => /\ dnsLast.err = errDecode
       /\ ~IsNameError(dnsLast.err)
       /\ dnsLast.sx = <<>>
       /\ dnsLast.badKey = Decoded[FirstMalformed].key

\* a query that decoded a well-formed address record and then a malformed one
C9_Witness ==
    /\ IsRecordsCall /\ dnsLast.err = errDecode
    /\ Len(Decoded) = 2
    /\ UnmarshalService(Decoded[1].value).err = "nil"
    /\ shouldInclude(UnmarshalService(Decoded[1].value).serv, dnsLast.qType)
    /\ dnsLast.badKey = Decoded[2].key
    /\ dnsLast.sx = <<>>

\* C9 as stated: the malformed record is skipped, the query does not fail
\* and the Services of the well-formed records are returned
C9_AsStated ==
    (/\ IsRecordsCall /\ ~ZoneFiltered(dnsLast.name)
     /\ \E i \in 1..Len(Decoded) : UnmarshalService(Decoded[i].value).err # "nil")
    => /\ dnsLast.err = "nil"
       /\ \A i \in 1..Len(Decoded) :
             LET u == UnmarshalService(Decoded[i].value)
             IN  (u.err = "nil" /\ shouldInclude(u.serv, dnsLast.qType))
                 => \E j \in 1..Len(dnsLast.sx) : dnsLast.sx[j].key = Decoded[i].key

\* the Service a stored record answers with: its host and text, the key it
\* is stored at, priority 10 when it has none, its ttl negotiated with the lease
Answer(k) ==
    LET d == StoredDoc(k)
        l == etcd[k].lease
    IN  Service(d.host, d.text,
                IF l = 0 /\ d.ttl = 0 THEN 300
                ELSE IF l = 0 THEN d.ttl
                ELSE IF d.ttl = 0 THEN l
                ELSE IF l < d.ttl THEN l ELSE d.ttl,
                IF d.priority = 0 THEN 10 ELSE d.priority,
                k)

\* the exact query of a name whose key holds a well-formed record, the name
\* not caught by the zone filter and no read failing
ExactOfStored ==
    /\ IsRecordsCall /\ dnsLast.exact
    /\ ~ZoneFiltered(dnsLast.name)
    /\ ~(dnsLast.fail = "exact")
    /\ ~(dnsLast.fail = "exist" /\ Asked(dnsLast.name, dnsLast.qType))
    /\ WellFormed(KeyOf(dnsLast.name))

LeaseSeconds(id) == IF id = 0 THEN 0 ELSE IF id = 77 THEN 200 ELSE 30

\* the rule of the TTL negotiation on a pair of TTLs
Negotiated(leaseTTL, serviceTTL) ==
    IF leaseTTL = 0 /\ serviceTTL = 0 THEN 300
    ELSE IF leaseTTL = 0 THEN serviceTTL
    ELSE IF serviceTTL = 0 THEN leaseTTL
    ELSE IF leaseTTL < serviceTTL THEN leaseTTL ELSE serviceTTL

\* C15: the TTL of every returned Service is negotiated between the seconds
\* left of the lease of its key and the ttl of the stored Service: 300 when
\* both are zero, the non-zero one when one is zero, the minimum otherwise
C15_TTLNegotiation ==
    IsRecordsCall =>
        \A i \in 1..Len(dnsLast.sx) :
            LET k == dnsLast.sx[i].key
            IN  dnsLast.sx[i].ttl =
                    Negotiated(LeaseSeconds(etcd[k].lease), StoredDoc(k).ttl)

\* the key/values the last query fetched and the sibling filter kept
Filtered ==
    LET pw   == PathWithWildcard(dnsLast.lookup, PathPrefix)
        r    == get(etcd, pw.path, ~dnsLast.exact, dnsLast.fail)
        segs == Split(Path(dnsLast.lookup, PathPrefix), "/")
    IN  IF r.err # "nil" THEN <<>>
        ELSE filterKvs(r.kvs, segs, dnsLast.qType, WildcardBound)

\* text for a TXT query, host for any other
Answers(d, qType) == IF qType = TypeTXT THEN d.text # <<>> ELSE d.host # <<>>

KeysOf(s) == [i \in 1..Len(s) |-> s[i].key]

\* C19 (as amended): every Service returned for a TXT query has non-empty
\* text and every Service returned for another type has non-empty host; and
\* when the query does not fail, the Services returned are exactly, in key
\* order, those of the fetched records that pass the sibling filter and the
\* star match and have the text, or host, the type asks for.
C19_InclusionByType ==
    (IsRecordsCall /\ ~ZoneFiltered(dnsLast.name)) =>
        /\ \A i \in 1..Len(dnsLast.sx) : Answers(dnsLast.sx[i], dnsLast.qType)
        /\ dnsLast.err = "nil" =>
              KeysOf(dnsLast.sx) =
                  KeysOf(SelectSeq(Decoded,
                             LAMBDA v : Answers(UnmarshalService(v.value).serv,
                                                dnsLast.qType)))

\* a TXT query that decoded an address record and a text record with an
\* empty host, and returned the text record only
C19_Witness ==
    /\ IsRecordsCall /\ dnsLast.qType = TypeTXT /\ dnsLast.err = "nil"
    /\ Len(Decoded) = 2
    /\ \E i \in 1..2 : UnmarshalService(Decoded[i].value).serv.host # <<>>
    /\ Len(dnsLast.sx) = 1
    /\ dnsLast.sx[1].text = Text1
    /\ dnsLast.sx[1].host = <<>>

\* C19 as stated: no fetched record that passes the sibling filter and has
\* the text, or host, the type asks for is left out
C19_AsStated ==
    (IsRecordsCall /\ ~ZoneFiltered(dnsLast.name)) =>
        /\ \A i \in 1..Len(dnsLast.sx) : Answers(dnsLast.sx[i], dnsLast.qType)
        /\ \A i \in 1..Len(Filtered) :
              LET u == UnmarshalService(Filtered[i].value)
              IN  (u.err = "nil" /\ Answers(u.serv, dnsLast.qType))
                  => \E j \in 1..Len(dnsLast.sx) : dnsLast.sx[j].key = Filtered[i].key

\* C20: the result never holds two Services that were decoded from equal
\* values and differ only in the key they were read from
C20_Deduplicated ==
    IsRecordsCall =>
        \A i, j \in 1..Len(dnsLast.sx) :
            i # j => StoredDoc(dnsLast.sx[i].key) # StoredDoc(dnsLast.sx[j].key)

-----------------------------------------------------------------------------
(* More claims about the flat backends *)

\* C12: DeleteValue returns success whether or not the key is stored, leaves
\* the store as it is when the key is absent, leaves the other keys alone,
\* done again changes nothing, and after it GetValue reports the key absent:
\* the empty string and no error
C12_DeleteIdempotent ==
    [][kvLast'.op = "DeleteValue" =>
          LET name  == kvLast'.name
              vt    == kvLast'.vtype
              again == DeleteValue(Store', name, vt)
              g     == GetValue(Store', name, vt, ZeroToken)
          IN  /\ kvLast'.err = "nil"
              /\ ~Present(Store', name, vt)
              /\ ~Present(Store, name, vt) => Store' = Store
              /\ \A n \in Names \ {name} :
                    /\ Present(Store', n, vt) <=> Present(Store, n, vt)
                    /\ Present(Store, n, vt) => Bytes(Store', n, vt) = Bytes(Store, n, vt)
              /\ again.err = "nil" /\ again.st = Store'
              /\ g.err = "nil" /\ g.ret = <<>>]_vars

\* a DeleteValue has returned, its key is absent and another key is stored
C12_Witness ==
    /\ kvLast.op = "DeleteValue" /\ kvLast.err = "nil"
    /\ ~Present(Store, kvLast.name, kvLast.vtype)
    /\ \E n \in Names : Present(Store, n, kvLast.vtype)

\* C13: QueryFrozen(prefix) returns the prefix when a frozen-prefix record is
\* stored under it and the empty string when none is, with no error
C13_QueryFrozen ==
    kvLast.op = "QueryFrozen" =>
        /\ kvLast.err = "nil"
        /\ kvLast.ret = IF Present(Store, kvLast.name, FrozenPrefixValueType)
                        THEN kvLast.name
                        ELSE <<>>

\* C14: after RenewToken(fqdn) succeeds on an fqdn that has a token, the
\* stored token has the token value and the fqdn it had before and createdOn
\* equal to the time of the call, the call returns that createdOn, and no
\* other token record changes
C14_RenewInPlace ==
    [][(/\ kvLast'.op = "RenewToken"
        /\ kvLast'.err = "nil"
        /\ Present(Store, kvLast'.name, TokenValueType)) =>
          LET name   == kvLast'.name
              before == QueryToken(Store, name)
              after  == QueryToken(Store', name)
          IN  /\ before.err = "nil" /\ after.err = "nil"
              /\ Present(Store', name, TokenValueType)
              /\ after.token.token = before.token.token
              /\ after.token.fqdn = before.token.fqdn
              /\ after.token.createdOn = now
              /\ kvLast'.t = now
              /\ \A n \in Names \ {name} :
                    /\ Present(Store', n, TokenValueType) <=> Present(Store, n, TokenValueType)
                    /\ Present(Store, n, TokenValueType) =>
                          Bytes(Store', n, TokenValueType) = Bytes(Store, n, TokenValueType)]_vars

\* a token written before the current time has been renewed, next to
\* another token that still has its earlier createdOn
C14_Witness ==
    /\ kvLast.op = "RenewToken" /\ kvLast.err = "nil"
    /\ Present(Store, kvLast.name, TokenValueType)
    /\ QueryToken(Store, kvLast.name).token.token # <<>>
    /\ StoredCreatedOn(Store, kvLast.name, TokenValueType) = kvLast.t
    /\ kvLast.t = MaxTime
    /\ \E n \in Names \ {kvLast.name} :
          /\ Present(Store, n, TokenValueType)
          /\ StoredCreatedOn(Store, n, TokenValueType) < kvLast.t

\* the token value of the record stored under name
StoredToken(st, name) == Unmarshal(Bytes(st, name, TokenValueType)).doc.token

\* C16: DeleteToken(value) deletes every stored token record whose token
\* value equals value and leaves every token record with another value, and
\* every record of the other value types, unchanged
C16_DeleteByValue ==
    [][kvLast'.op = "DeleteToken" =>
          /\ \A n \in Names :
                IF Present(Store, n, TokenValueType)
                THEN IF StoredToken(Store, n) = kvLast'.arg
                     THEN ~Present(Store', n, TokenValueType)
                     ELSE /\ Present(Store', n, TokenValueType)
                          /\ Bytes(Store', n, TokenValueType) = Bytes(Store, n, TokenValueType)
                ELSE ~Present(Store', n, TokenValueType)
          /\ \A n \in Names, vt \in ValueTypes \ {TokenValueType} :
                /\ Present(Store', n, vt) <=> Present(Store, n, vt)
                /\ Present(Store, n, vt) => Bytes(Store', n, vt) = Bytes(Store, n, vt)]_vars

\* C11: for any name and any two different value types A and B, SetValue,
\* UpdateValue and DeleteValue on (name, A) leave what is stored under B
\* unchanged, GetValue(name, A) returns what is stored under (name, A) and
\* nothing when (name, A) is absent, whatever is stored under B, and
\* ListValues(A) lists exactly the names stored under A
C11_PartitionsDisjoint ==
    [][LET A == kvLast'.vtype
       IN  /\ kvLast'.op \in {"SetValue", "UpdateValue", "DeleteValue"} =>
                \A n \in Names, B \in ValueTypes \ {A} :
                    /\ Present(Store', n, B) <=> Present(Store, n, B)
                    /\ Present(Store, n, B) => Bytes(Store', n, B) = Bytes(Store, n, B)
           /\ (kvLast'.op = "GetValue" /\ kvLast'.err = "nil") =>
                kvLast'.ret = IF Present(Store, kvLast'.name, A)
                              THEN Bytes(Store, kvLast'.name, A)
                              ELSE <<>>
           /\ kvLast'.op = "ListValues" =>
                /\ kvLast'.err = "nil"
                /\ SeqToSet(kvLast'.names) = {n \in Names : Present(Store, n, A)}]_vars

\* a bucket has been listed and holds one name, while the other name is
\* stored in another bucket only
C11_Witness ==
    /\ kvLast.op = "ListValues"
    /\ Len(kvLast.names) = 1
    /\ \E n \in Names \ SeqToSet(kvLast.names), B \in ValueTypes \ {kvLast.vtype} :
          /\ Present(Store, n, B)
          /\ Present(Store, kvLast.names[1], B)
          /\ Bytes(Store, kvLast.names[1], B) # Bytes(Store, kvLast.names[1], kvLast.vtype)

\* the records of valueType stored with owner id, as decoded, in the order
\* of the names
OwnedBy(st, valueType, id) ==
    LET stored == SelectSeq(NameList,
                            LAMBDA n : /\ Present(st, n, valueType)
                                       /\ Unmarshal(Bytes(st, n, valueType)).doc.tid = id)
    IN  [i \in 1..Len(stored) |->
            LET d == Unmarshal(Bytes(st, stored[i], valueType)).doc
            IN  IF valueType = SubARecordValueType
                THEN SubRecordA(d.fqdn, d.hosts, d.tid)
                ELSE RecordTXT(d.fqdn, d.text, d.tid)]

\* C18: ListSubA(id) returns exactly the stored sub-A records whose tid is
\* id, and QueryExpiredTXTs(id) exactly the stored TXT records whose tid is
\* id; a record of another owner is never returned
C18_ByOwner ==
    /\ (kvLast.op = "ListSubA" /\ kvLast.err = "nil") =>
          SeqToSet(kvLast.tokens) = SeqToSet(OwnedBy(Store, SubARecordValueType, kvLast.t))
    /\ (kvLast.op = "QueryExpiredTXTs" /\ kvLast.err = "nil") =>
          SeqToSet(kvLast.tokens) = SeqToSet(OwnedBy(Store, TXTRecordValueType, kvLast.t))

\* a call stands between its existence check and its write
Between(p) == procs.call[p].pc = "checked"

\* C17: in each flat backend the existence check and the write of a mutation
\* are never interleaved with another mutation of the same key; of two
\* concurrent SetValue on the same absent key exactly one succeeds; and an
\* UpdateValue racing with a DeleteValue of the same key never fails because
\* the key vanished between its check and its write
C17_Serialized ==
    /\ \A p, q \in Procs : (p # q /\ Between(p)) => procs.call[q].pc \in {"start", "locked", "done"}
    /\ (/\ procs.absent
        /\ \A p \in Procs : procs.call[p].op = "SetValue" /\ procs.call[p].pc = "done") =>
            Cardinality({p \in Procs : procs.call[p].err = "nil"}) = 1
    /\ \A p \in Procs :
          (procs.call[p].op = "UpdateValue" /\ procs.call[p].pc = "done") =>
              procs.call[p].err # "NotFound"

\* C21: with no write in between and no backend error, a second
\* DeleteExpiredFrozen(cutoff), and a second QueryExpiredTokens(cutoff)
\* followed by the release of the tokens returned, with the same cutoff
\* leaves the store as the first one left it and finds nothing expired
C21_SweepIdempotent ==
    [][/\ (kvLast'.op = "DeleteExpiredFrozen" /\ kvLast'.err = "nil") =>
            /\ DeleteExpiredFrozen(Store', kvLast'.t).st = Store'
            /\ GetExpiredValues(Store', FrozenPrefixValueType, kvLast'.t).ret = <<>>
       /\ (kvLast'.op = "SweepTokens" /\ kvLast'.err = "nil") =>
            /\ SweepTokens(Store', kvLast'.t).st = Store'
            /\ QueryExpiredTokens(Store', kvLast'.t).ret = <<>>]_vars

\* C22: every token record stored under key n has fqdn n and a non-empty
\* token, a token record appears under n only by InsertToken or MigrateToken
\* for n, and RenewToken(n) on a name with no token leaves the store unchanged
C22_TokensWellFormed ==
    [][/\ \A n \in Names :
            Present(Store', n, TokenValueType) =>
                /\ Unmarshal(Bytes(Store', n, TokenValueType)).doc.fqdn = n
                /\ Unmarshal(Bytes(Store', n, TokenValueType)).doc.token # <<>>
                /\ ~Present(Store, n, TokenValueType) =>
                        /\ kvLast'.op \in {"InsertToken", "MigrateToken"}
                        /\ kvLast'.name = n
       /\ (kvLast'.op = "RenewToken" /\ ~Present(Store, kvLast'.name, TokenValueType)) =>
            Store' = Store]_vars

\* C23: a sweep running beside InsertFrozen, InsertToken, RenewToken and
\* DeleteValue of other clients never deletes a frozen prefix, and never
\* reports a token, whose stored createdOn is at or after the cutoff at the
\* moment of the deletion or of the report
C23_NoLiveSwept ==
    [][(/\ kvLast'.op \in {"DeleteExpiredFrozen.DeleteValue", "QueryExpiredTokens.QueryToken"}
        /\ Present(Store, kvLast'.name, kvLast'.vtype)) =>
            StoredCreatedOn(Store, kvLast'.name, kvLast'.vtype) < kvLast'.t]_vars

\* C24: in the filesystem backend no call stands at mux.Lock() while it
\* holds the mutex, no call has returned, with or without an error, still
\* holding it, and every call started eventually returns
C24_LockFree ==
    /\ [](\A p \in Procs :
            procs.call[p].pc \in {"start", "list", "done"} => procs.mux # p)
    /\ \A p \in Procs : <>(procs.call[p].pc = "done")

\* both calls have returned and the mutex is free: a GetExpiredValues that
\* read the key under the mutex beside a SetValue or UpdateValue of the same
\* key, one of the two returning an error
C24_Witness ==
    /\ \A p \in Procs : procs.call[p].pc = "done"
    /\ procs.mux = 0
    /\ \E p, q \in Procs :
          /\ procs.call[p].op = "GetExpiredValues"
          /\ procs.call[p].seen # <<>>
          /\ procs.call[q].op \in {"SetValue", "UpdateValue"}
          /\ procs.call[q].err # "nil" \/ procs.call[p].err # "nil"

====
